---- MODULE Spec2Model ----
(***************************************************************************)
(* A model of the FastMCP protocol session (FastMCPSession), of the server *)
(* facade (FastMCP) and of the mcp-proxy HTTP listeners it starts.         *)
(*                                                                         *)
(* SpecTool   : one session handling tools/call and logging/setLevel       *)
(*              requests, with the tools' own code running concurrently.   *)
(* SpecFacade : the facade with its SSE or HTTP-stream listener, the       *)
(*              connections it accepts and the events it emits.            *)
(***************************************************************************)
EXTENDS Integers, Sequences, FiniteSets, TLC

\* Number of requests a client sends on the session in one run.
NumReq == 2

VARIABLES
    \* ---- FastMCPSession ----
    loggingLevel,   \* #loggingLevel
    connected,      \* the session's transport is open
    request,        \* the requests received so far, in arrival order (index = id)
    handler,        \* per request id: where its request handler stands
    exec,           \* per request id: the tool's execute() call
    timer,          \* per request id: the setTimeout of the timeout race
    sent,           \* per request id: what the session wrote to the transport for it
    responses,      \* ids of the responses written, in the order written
    \* ---- FastMCP and its listener ----
    transportType,  \* options.transportType of start()
    stopped,        \* the listener has been shut down
    conn,           \* per connection: the state of its request listener closure
    activeTransports, \* the listener's table of live transports (its keys)
    sessions,       \* #sessions
    events,         \* the "connect" / "disconnect" events emitted, in order
    \* ---- the loaders of resources, resource templates and prompts ----
    loads,          \* the load() calls made so far, in order
    \* ---- FastMCPSession: connect() and close() ----
    options,        \* #pingConfig.enabled and #rootsConfig.enabled
    transport,      \* #server.transport
    peerCapabilities,   \* what #server.getClientCapabilities() returns
    clientCapabilities, \* #clientCapabilities
    roots,          \* #roots
    pingInterval,   \* #pingInterval: "null", "running" or "cleared"
    connecting,     \* the connect() call in progress
    connects,       \* the connect() calls made so far and how each ended
    probes,         \* the ticks of the ping interval so far
    closed,         \* close() has been called
    \* ---- FastMCPSession: writes after close, roots, completion ----
    unhandled,      \* the promise rejections that nothing handles, in order
    rootsFetches,   \* the listRoots() calls of the roots-changed handler, in order
    rootsEvents,    \* the "rootsChanged" events emitted, in order
    \* ---- several sessions of one facade ----
    peers,          \* per session: its private fields
    \* ---- the registry of the facade and of a session built from it ----
    registry,       \* FastMCP: #tools, #resources, #resourcesTemplates, #prompts
    built,          \* the FastMCPSession constructed from it (handlers set up, copies)
    \* ---- the listener's other routes ----
    replies,        \* the answer to the latest request that opens no connection
    \* ---- InMemoryEventStore ----
    eventStore,     \* the events map, Date.now(), and what the last replay sent
    \* ---- StdioClientTransport ----
    stdio,          \* the transport's fields, its child processes and its callbacks' calls
    \* ---- the grading backend ----
    backend         \* a router's array and idCounter, and its latest response

sessionVars == <<loggingLevel, connected, request, handler, exec, timer, sent, responses>>

facadeVars == <<transportType, stopped, conn, activeTransports, sessions, events>>

\* The components beside the session and the facade, which no handler of theirs
\* touches.
apartVars == <<eventStore, stdio, backend>>

\* The loaders' variable, and with it what every handler but theirs leaves alone too.
readVars == <<loads, apartVars>>

lifeVars == <<options, transport, peerCapabilities, clientCapabilities, roots, pingInterval,
              connecting, connects, probes, closed>>

\* The variables of the later sections, but for `unhandled`.
laterVars == <<rootsFetches, rootsEvents, peers, registry, built, replies>>

vars == <<loggingLevel, connected, request, handler, exec, timer, sent, responses,
          transportType, stopped, conn, activeTransports, sessions, events, loads,
          options, transport, peerCapabilities, clientCapabilities, roots, pingInterval,
          connecting, connects, probes, closed,
          unhandled, rootsFetches, rootsEvents, peers, registry, built, replies,
          eventStore, stdio, backend>>

\* What the handlers of tools/call and logging/setLevel leave alone.
exceptSession == <<facadeVars, readVars, lifeVars, laterVars, unhandled>>

\* What the handlers of resources/read and prompts/get leave alone, besides the
\* session fields they list themselves.
exceptRead == <<facadeVars, lifeVars, laterVars, unhandled, apartVars>>

\* What the facade and its listeners leave alone.
exceptFacade == <<sessionVars, readVars, lifeVars, laterVars, unhandled>>

ReqIds == 1..NumReq

(***************************************************************************)
(* Values                                                                  *)
(***************************************************************************)

\* type LoggingLevel
LoggingLevel == {"alert", "critical", "debug", "emergency", "error", "info", "notice", "warning"}

\* The levels a client asks for in this model.
RequestedLevels == {"debug", "info", "error"}

\* request.params._meta.progressToken is optional.
NoToken == "undefined"
ProgressTokens == {NoToken, "token"}

\* What a tool's code does with its context: context.log.<method>(message) and
\* context.reportProgress({progress, total}).
Log(method, message) == [op |-> "log", method |-> method, message |-> message]
Report(progress, total) == [op |-> "reportProgress", progress |-> progress, total |-> total]

\* JavaScript values a tool's execute() resolves to.
Str(text) == [js |-> "string", text |-> text]
Content(type, body) == [js |-> "content", type |-> type, body |-> body]
ContentList(content, isError) == [js |-> "result", content |-> content, isError |-> isError]
OtherObject == [js |-> "other"]

\* Errors.
Err(name, message) == [name |-> name, message |-> message]
\* String(error) of `Error: ${error}`
ErrString(e) == e.name \o ": " \o e.message

Returns(value) == [threw |-> FALSE, value |-> value]
Throws(error) == [threw |-> TRUE, error |-> error]

\* A call that has not settled yet.
Pending == [threw |-> FALSE]

\* What the protocol layer throws when asked to write without a transport.
NotConnected == Err("Error", "Not connected")

\* Number of exceptions that escape a listener or a call in one run.
MaxRaised == 1

(***************************************************************************)
(* The registry: the tools added to the server before the session starts.  *)
(* timeoutMs = 0 stands for a tool that declares no timeout.               *)
(***************************************************************************)
SlowTimeoutMs == 1000

tools == <<
    [name |-> "add",   parameters |-> TRUE,  timeoutMs |-> 0],
    [name |-> "noisy", parameters |-> TRUE,  timeoutMs |-> 0],
    [name |-> "slow",  parameters |-> TRUE,  timeoutMs |-> SlowTimeoutMs],
    [name |-> "fail",  parameters |-> TRUE,  timeoutMs |-> 0],
    [name |-> "now",   parameters |-> FALSE, timeoutMs |-> 0] >>

\* The calls a tool's execute() makes on its context, in program order.
Body(name) ==
    CASE name = "noisy" -> << Log("debug", "debug message"), Report(0, 10),
                              Log("error", "error message"), Log("info", "info message"),
                              Report(5, 10), Log("warn", "warn message") >>
      [] name = "slow"  -> << Report(0, 10), Log("info", "slept") >>
      [] name = "fail"  -> << Log("error", "failing") >>
      [] OTHER          -> << >>

\* How a tool's execute() may settle once its body has run.
Outcomes(name) ==
    CASE name = "add"   -> { Returns(Str("3")) }
      [] name = "noisy" -> { Returns(Str("done")) }
      [] name = "slow"  -> { Returns(Str("1502")) }
      [] name = "fail"  -> { Throws(Err("UserError", "Something went wrong")),
                             Throws(Err("Error", "boom")),
                             Returns(Content("video", "mp4")),
                             Returns(OtherObject) }
      [] name = "now"   -> { Returns(Str("12:00")),
                             Returns(Content("image", "png")),
                             Returns(ContentList(<<Content("text", "a"), Content("audio", "wav")>>, FALSE)),
                             Returns(ContentList(<<Content("text", "not found")>>, TRUE)) }
      [] OTHER          -> { }

ToolNames == { tools[i].name : i \in 1..Len(tools) }
CalledNames == ToolNames \cup {"unknown"}

\* Whether the arguments of a call satisfy the schema of the tool they are for.
Arguments == {"valid", "invalid"}

\* The tools/call requests a client sends: any name with any arguments; a progress
\* token comes with calls of the tools that report progress.
Calls ==
    { c \in [name : CalledNames, arguments : Arguments, progressToken : ProgressTokens] :
        c.progressToken # NoToken => c.name \in {"noisy", "slow"} /\ c.arguments = "valid" }

(***************************************************************************)
(* Messages written to the transport                                       *)
(***************************************************************************)
Text(text) == [type |-> "text", text |-> text]

Result(content, isError) == [kind |-> "result", content |-> content, isError |-> isError]
ProtocolError(code, message) == [kind |-> "error", code |-> code, message |-> message]
\* The result {} of a request that returns nothing.
EmptyResult == [kind |-> "result"]
Response(id, payload) == [method |-> "response", id |-> id, payload |-> payload]

(***************************************************************************)
(* FastMCPSession.setupToolHandlers: the CallToolRequestSchema handler     *)
(***************************************************************************)

\* A lookup that falls back to the first tool when no name matches.
FindToolOrFirst(name) ==
    LET hits == { i \in 1..Len(tools) : tools[i].name = name }
    IN  IF hits = {} THEN 1 ELSE CHOOSE i \in hits : \A j \in hits : i <= j

\* tools.find((tool) => tool.name === request.params.name): index of the first match, 0 if none.
FindTool(name) ==
    LET hits == { i \in 1..Len(tools) : tools[i].name = name }
    IN  IF hits = {} THEN 0 ELSE CHOOSE i \in hits : \A j \in hits : i <= j

UnknownTool(name) == ProtocolError("MethodNotFound", "Unknown tool: " \o name)

\* tool.parameters["~standard"].validate(arguments): the issues found.
Validate(arguments) == IF arguments = "valid" THEN << >> ELSE << "invalid_type" >>

\* A validation failure reported with the code of an internal error.
InvalidParametersAsInternal(name, issues) ==
    [kind |-> "error", code |-> "InternalError",
     message |-> "Invalid " \o name \o " parameters: " \o issues[1]]

InvalidParameters(name, issues) ==
    ProtocolError("InvalidParams", "Invalid " \o name \o " parameters: " \o issues[1])

\* A progress notification that leaves the request's token out.
ProgressNotificationNoToken(progress, progressToken) ==
    [method |-> "notifications/progress", progress |-> progress.progress,
     total |-> progress.total, progressToken |-> NoToken]

\* reportProgress: notifications/progress with {...progress, progressToken}
ProgressNotification(progress, progressToken) ==
    [method |-> "notifications/progress", progress |-> progress.progress,
     total |-> progress.total, progressToken |-> progressToken]

\* Levels named after the logger's methods.
LogLevelOfMethodName(method) == method

\* log.debug / log.error / log.info / log.warn: the level of the logging message sent.
LogLevel(method) ==
    CASE method = "debug" -> "debug"
      [] method = "error" -> "error"
      [] method = "info"  -> "info"
      [] method = "warn"  -> "warning"

LoggingMessage(method, message) ==
    [method |-> "notifications/message", level |-> LogLevel(method), message |-> message]

\* The notification one call of the tool on its context makes the session send.
Notification(call, progressToken) ==
    IF call.op = "log" THEN LoggingMessage(call.method, call.message)
    ELSE ProgressNotification(call, progressToken)

\* A timeout that rejects with a plain Error.
TimeoutPlainError(timeoutMs) ==
    Err("Error", "Tool execution timed out after " \o ToString(timeoutMs) \o "ms")

\* The UserError the timeout promise rejects with.
TimeoutError(timeoutMs) ==
    Err("UserError", "Tool execution timed out after " \o ToString(timeoutMs) \o "ms")

ContentTypes == {"text", "image", "audio"}

\* ContentResultZodSchema.parse
ParseContentResult(content, isError) ==
    IF \A i \in 1..Len(content) : content[i].type \in ContentTypes
    THEN [ok |-> TRUE, result |-> Result(content, isError)]
    ELSE [ok |-> FALSE, error |-> Err("ZodError", "invalid_union_discriminator")]

\* A normalization that knows strings and content lists only.
NormalizeWithoutItems(value) ==
    CASE value.js = "string"  -> ParseContentResult(<< Text(value.text) >>, FALSE)
      [] value.js = "result"  ->
            ParseContentResult([i \in 1..Len(value.content) |->
                                   [type |-> value.content[i].type, body |-> value.content[i].body]],
                               value.isError)
      [] OTHER                -> [ok |-> FALSE, error |-> Err("ZodError", "invalid_type")]

\* The normalization of what execute() resolved to.
Normalize(value) ==
    CASE value.js = "string"  -> ParseContentResult(<< Text(value.text) >>, FALSE)
      [] value.js = "content" -> ParseContentResult(<< [type |-> value.type, body |-> value.body] >>, FALSE)
      [] value.js = "result"  ->
            ParseContentResult([i \in 1..Len(value.content) |->
                                   [type |-> value.content[i].type, body |-> value.content[i].body]],
                               value.isError)
      [] OTHER                -> [ok |-> FALSE, error |-> Err("ZodError", "invalid_type")]

\* A catch block that lets every error but a UserError escape as a protocol error.
CatchUserErrorOnly(error) ==
    IF error.name = "UserError"
    THEN Result(<< Text(error.message) >>, TRUE)
    ELSE ProtocolError("InternalError", error.message)

\* The catch block of the handler.
CatchResult(error) ==
    IF error.name = "UserError"
    THEN Result(<< Text(error.message) >>, TRUE)
    ELSE Result(<< Text("Error: " \o ErrString(error)) >>, TRUE)

\* What the handler returns once the awaited promise has settled with `outcome`.
HandlerResult(outcome) ==
    IF outcome.threw THEN CatchResult(outcome.error)
    ELSE LET n == Normalize(outcome.value)
         IN  IF n.ok THEN n.result ELSE CatchResult(n.error)

NoExec == [st |-> "none", pc |-> 0, afterDeadline |-> FALSE, outcome |-> "none"]

\* A response numbered by the order in which handlers finish.
ReplyInCompletionOrder(r, payload) ==
    /\ sent' = IF connected
               THEN [sent EXCEPT ![r] = Append(@, Response(Len(responses) + 1, payload))]
               ELSE sent
    /\ responses' = IF connected THEN Append(responses, r) ELSE responses
    /\ handler' = [handler EXCEPT ![r] = "done"]

\* The response to request r is written (and dropped when the transport has closed).
Reply(r, payload) ==
    /\ sent' = IF connected THEN [sent EXCEPT ![r] = Append(@, Response(r, payload))] ELSE sent
    /\ responses' = IF connected THEN Append(responses, r) ELSE responses
    /\ handler' = [handler EXCEPT ![r] = "done"]

\* const executeToolPromise = tool.execute(args, {log, reportProgress, session}),
\* and the timeout promise when the tool declares a timeout.
Execute(r, tool) ==
    /\ exec' = [exec EXCEPT ![r] = [NoExec EXCEPT !.st = "running"]]
    /\ timer' = [timer EXCEPT ![r] = IF tool.timeoutMs # 0 THEN "armed" ELSE "none"]
    /\ handler' = [handler EXCEPT ![r] = "await"]
    /\ UNCHANGED <<sent, responses>>

\* A tools/call request arrives: the handler looks the tool up and, when the tool has
\* no schema, goes on to execute it.
CallTool(call) ==
    /\ connected
    /\ Len(request) < NumReq
    /\ LET r == Len(request) + 1
           t == FindTool(call.name)
       IN  /\ request' = Append(request, [method |-> "tools/call", name |-> call.name,
                                          arguments |-> call.arguments,
                                          progressToken |-> call.progressToken])
           /\ IF t = 0
              THEN Reply(r, UnknownTool(call.name)) /\ UNCHANGED <<exec, timer>>
              ELSE IF tools[t].parameters
                   THEN /\ handler' = [handler EXCEPT ![r] = "validate"]
                        /\ UNCHANGED <<exec, timer, sent, responses>>
                   ELSE Execute(r, tools[t])
    /\ UNCHANGED <<loggingLevel, connected>>
    /\ UNCHANGED exceptSession

\* The awaited validation of the arguments completes.
ValidateArguments(r) ==
    /\ handler[r] = "validate"
    /\ LET tool == tools[FindTool(request[r].name)]
           issues == Validate(request[r].arguments)
       IN  IF issues # << >>
           THEN Reply(r, InvalidParameters(request[r].name, issues)) /\ UNCHANGED <<exec, timer>>
           ELSE Execute(r, tool)
    /\ UNCHANGED <<loggingLevel, connected, request>>
    /\ UNCHANGED exceptSession

\* A rejected promise that nothing awaits and nothing catches.
UnhandledRejection(r, error) == [request |-> r, error |-> error]

\* The tool's code makes its next call on the context.  With the transport open the
\* notification is written.  With the transport gone the protocol layer throws: the
\* promise of sendLoggingMessage, which log.* neither awaits nor catches, is rejected;
\* the promise of reportProgress, which the tool awaits, makes execute() reject.
ToolStep(r) ==
    /\ exec[r].st = "running"
    /\ exec[r].pc < Len(Body(request[r].name))
    /\ LET call == Body(request[r].name)[exec[r].pc + 1]
       IN  IF connected
           THEN /\ sent' = [sent EXCEPT ![r] = Append(@, Notification(call, request[r].progressToken))]
                /\ exec' = [exec EXCEPT ![r].pc = @ + 1]
                /\ UNCHANGED <<unhandled, handler, responses>>
           ELSE IF call.op = "log"
                THEN /\ unhandled' = Append(unhandled, UnhandledRejection(r, NotConnected))
                     /\ exec' = [exec EXCEPT ![r].pc = @ + 1]
                     /\ UNCHANGED <<sent, handler, responses>>
                ELSE /\ exec' = [exec EXCEPT ![r].st = "threw",
                                             ![r].afterDeadline = (timer[r] = "fired"),
                                             ![r].outcome = Throws(NotConnected)]
                     /\ IF handler[r] = "await"
                        THEN Reply(r, HandlerResult(Throws(NotConnected)))
                        ELSE UNCHANGED <<sent, responses, handler>>
                     /\ UNCHANGED unhandled
    /\ UNCHANGED <<loggingLevel, connected, request, timer>>
    /\ UNCHANGED <<facadeVars, readVars, lifeVars, laterVars>>

\* The ways the execute() call of request r can settle now.
SettleOutcomes(r) == IF exec[r].st = "running" THEN Outcomes(request[r].name) ELSE { }

\* The tool's execute() settles; the handler, if it still awaits the race, returns.
ToolSettle(r, outcome) ==
    /\ exec[r].st = "running"
    /\ exec[r].pc = Len(Body(request[r].name))
    /\ outcome \in SettleOutcomes(r)
    /\ exec' = [exec EXCEPT ![r].st = IF outcome.threw THEN "threw" ELSE "returned",
                            ![r].afterDeadline = (timer[r] = "fired"),
                            ![r].outcome = outcome]
    /\ IF handler[r] = "await"
       THEN Reply(r, HandlerResult(outcome))
       ELSE UNCHANGED <<sent, responses, handler>>
    /\ UNCHANGED <<loggingLevel, connected, request, timer>>
    /\ UNCHANGED exceptSession

\* A deadline that also stops the tool's code.
TimerFireCancels(r) ==
    /\ timer[r] = "armed"
    /\ timer' = [timer EXCEPT ![r] = "fired"]
    /\ exec' = [exec EXCEPT ![r].st = IF @ = "running" THEN "cancelled" ELSE @]
    /\ IF handler[r] = "await"
       THEN Reply(r, HandlerResult(Throws(TimeoutError(tools[FindTool(request[r].name)].timeoutMs))))
       ELSE UNCHANGED <<sent, responses, handler>>
    /\ UNCHANGED <<loggingLevel, connected, request>>
    /\ UNCHANGED exceptSession

\* The timeout's timer fires; the handler, if it still awaits the race, returns.
TimerFire(r) ==
    /\ timer[r] = "armed"
    /\ timer' = [timer EXCEPT ![r] = "fired"]
    /\ IF handler[r] = "await"
       THEN Reply(r, HandlerResult(Throws(TimeoutError(tools[FindTool(request[r].name)].timeoutMs))))
       ELSE UNCHANGED <<sent, responses, handler>>
    /\ UNCHANGED <<loggingLevel, connected, request, exec>>
    /\ UNCHANGED exceptSession

(***************************************************************************)
(* FastMCPSession.setupLoggingHandlers                                     *)
(***************************************************************************)
\* A handler that only ever lowers the threshold to "debug".
SetLevelDebugOnly(level) ==
    /\ connected
    /\ Len(request) < NumReq
    /\ request' = Append(request, [method |-> "logging/setLevel", level |-> level])
    /\ loggingLevel' = IF level = "debug" THEN level ELSE loggingLevel
    /\ Reply(Len(request) + 1, EmptyResult)
    /\ UNCHANGED <<connected, exec, timer>>
    /\ UNCHANGED exceptSession

SetLevel(level) ==
    /\ connected
    /\ Len(request) < NumReq
    /\ request' = Append(request, [method |-> "logging/setLevel", level |-> level])
    /\ loggingLevel' = level
    /\ Reply(Len(request) + 1, EmptyResult)
    /\ UNCHANGED <<connected, exec, timer>>
    /\ UNCHANGED exceptSession

InitSession ==
    /\ loggingLevel = "info"
    /\ connected = TRUE
    /\ request = << >>
    /\ handler = [r \in ReqIds |-> "idle"]
    /\ exec = [r \in ReqIds |-> NoExec]
    /\ timer = [r \in ReqIds |-> "none"]
    /\ sent = [r \in ReqIds |-> << >>]
    /\ responses = << >>

(***************************************************************************)
(* The facade (FastMCP) and the listeners of mcp-proxy                     *)
(***************************************************************************)

\* Number of client connections a listener receives in one run.
NumConn == 2

ConnIds == 1..NumConn

TransportTypes == {"stdio", "sse", "httpStream"}

\* What createServer(request) comes to: the authenticator (when there is one) returns
\* and a FastMCPSession is constructed, or the authenticator throws a Response carrying
\* an HTTP status, or it throws anything else.
Created == [kind |-> "session"]

ThrownResponse(status) == [kind |-> "Response", status |-> status]

ThrownError == [kind |-> "Error"]

NotThrown == [kind |-> "none"]

CreateServerOutcomes == {Created, ThrownResponse(401), ThrownResponse(403), ThrownError}

\* The request listener's closure for one connection.
\*   stage    : how far the listener's handler has come
\*   session  : the FastMCPSession created for it (0: none)
\*   res      : the connection as the listener sees it
\*   closed   : `let closed` of the SSE endpoint
\*   closing  : the handler that tears the server down ("none", "awaiting", "done")
\*   deleting : the DELETE request of the HTTP-stream endpoint ("none", "awaiting", "done")
\*   thrown   : what createServer threw
\*   status   : the status written to the response head (0: nothing written)
NoConn ==
    [stage |-> "idle", session |-> 0, res |-> "none", closed |-> FALSE, closing |-> "none",
     deleting |-> "none", thrown |-> NotThrown, status |-> 0]

\* s of a connection is the session created for it.
Event(type, s) == [type |-> type, session |-> s]

\* The catch block after createServer: a Response's status, otherwise 500.
RejectAlways500(error) == 500

RejectStatus(error) == IF error.kind = "Response" THEN error.status ELSE 500

\* onConnect of the facade: the session is pushed and "connect" is emitted.
OnConnect(s) ==
    /\ sessions' = Append(sessions, s)
    /\ events' = Append(events, Event("connect", s))

\* onClose of the facade: "disconnect" is emitted.
OnClose(s) ==
    /\ events' = Append(events, Event("disconnect", s))
    /\ UNCHANGED sessions

\* The ascending sequence of the elements of a set of connection ids
\* (Object.values of the table, in insertion order).
RECURSIVE Values(_)
Values(S) ==
    IF S = {} THEN << >>
    ELSE LET c == CHOOSE x \in S : \A y \in S : x <= y
         IN  << c >> \o Values(S \ {c})

NextConn == CHOOSE c \in ConnIds : conn[c].stage = "idle" /\ \A d \in 1..(c - 1) : conn[d].stage # "idle"

\* start(options): the stdio session is created, connected and announced at once; the
\* other two transports start a listener.
Start(type) ==
    /\ transportType = "none"
    /\ transportType' = type
    /\ IF type = "stdio"
       THEN /\ conn' = [conn EXCEPT ![1] = [@ EXCEPT !.stage = "open", !.session = 1, !.res = "open"]]
            /\ OnConnect(1)
       ELSE UNCHANGED <<conn, sessions, events>>
    /\ UNCHANGED <<stopped, activeTransports>>
    /\ UNCHANGED exceptFacade

\* A request that opens a connection arrives: GET on the SSE endpoint, or a POST
\* without session id that carries an initialize request on the HTTP-stream endpoint.
\* The listener creates the transport and awaits createServer(req).
Open(c) ==
    /\ transportType \in {"sse", "httpStream"}
    /\ ~stopped
    /\ \E d \in ConnIds : conn[d].stage = "idle"
    /\ c = NextConn
    /\ conn' = [conn EXCEPT ![c] = [@ EXCEPT !.stage = "creating", !.res = "open"]]
    /\ UNCHANGED <<transportType, stopped, activeTransports, sessions, events>>
    /\ UNCHANGED exceptFacade

\* createServer threw: the response is ended with the status and nothing else happens.
Reject(c, error) ==
    /\ conn' = [conn EXCEPT ![c] = [@ EXCEPT !.stage = "rejected", !.res = "closed",
                                             !.thrown = error,
                                             !.status = RejectStatus(error)]]
    /\ UNCHANGED <<activeTransports, sessions, events>>

\* SSE endpoint, createServer settles: on success the transport is entered in the
\* table, the close handler is registered and server.connect(transport) is awaited.
SseCreateServer(c, outcome) ==
    /\ transportType = "sse"
    /\ conn[c].stage = "creating"
    /\ IF outcome.kind = "session"
       THEN /\ conn' = [conn EXCEPT ![c] = [@ EXCEPT !.stage = "connecting", !.session = c,
                                                    !.status = 200]]
            /\ activeTransports' = activeTransports \cup {c}
            /\ UNCHANGED <<sessions, events>>
       ELSE Reject(c, outcome)
    /\ UNCHANGED <<transportType, stopped>>
    /\ UNCHANGED exceptFacade

\* SSE endpoint, server.connect(transport) returns: the greeting is sent and onConnect
\* is called; when the close handler has closed the server meanwhile the send throws
\* and the catch block, seeing `closed`, does nothing.
SseConnect(c) ==
    /\ transportType = "sse"
    /\ conn[c].stage = "connecting"
    /\ IF conn[c].closed
       THEN /\ conn' = [conn EXCEPT ![c] = [@ EXCEPT !.stage = "ended"]]
            /\ UNCHANGED <<sessions, events>>
       ELSE /\ conn' = [conn EXCEPT ![c] = [@ EXCEPT !.stage = "open"]]
            /\ OnConnect(c)
    /\ UNCHANGED <<transportType, stopped, activeTransports>>
    /\ UNCHANGED exceptFacade

\* The "close" event of an SSE response whose close handler is registered: closed is
\* set and server.close() is awaited.  Before the handler is registered the event has
\* no listener.
ResClose(k) ==
    IF k.stage \in {"connecting", "open"}
    THEN [k EXCEPT !.res = "closed", !.closed = TRUE, !.closing = "awaiting"]
    ELSE [k EXCEPT !.res = "closed"]

\* SSE endpoint: the client goes away.
SsePeerClose(c) ==
    /\ transportType = "sse"
    /\ conn[c].res = "open"
    /\ conn[c].stage \in {"creating", "connecting", "open"}
    /\ conn' = [conn EXCEPT ![c] = ResClose(@)]
    /\ UNCHANGED <<transportType, stopped, activeTransports, sessions, events>>
    /\ UNCHANGED exceptFacade

\* SSE endpoint, the close handler after server.close(): the transport leaves the
\* table and onClose is called.
SseClosed(c) ==
    /\ transportType = "sse"
    /\ conn[c].closing = "awaiting"
    /\ conn' = [conn EXCEPT ![c] = [@ EXCEPT !.closing = "done"]]
    /\ activeTransports' = activeTransports \ {c}
    /\ OnClose(conn[c].session)
    /\ UNCHANGED <<transportType, stopped>>
    /\ UNCHANGED exceptFacade

\* HTTP-stream endpoint, createServer settles: on success server.connect(transport) is
\* started without being awaited, onConnect is called, and the transport handles the
\* initialize request, which generates the session id and enters the table.
HttpCreateServer(c, outcome) ==
    /\ transportType = "httpStream"
    /\ conn[c].stage = "creating"
    /\ IF outcome.kind = "session"
       THEN /\ conn' = [conn EXCEPT ![c] = [@ EXCEPT !.stage = "open", !.session = c,
                                                    !.status = 200]]
            /\ OnConnect(c)
            /\ activeTransports' = activeTransports \cup {c}
       ELSE Reject(c, outcome)
    /\ UNCHANGED <<transportType, stopped>>
    /\ UNCHANGED exceptFacade

\* transport.onclose of the HTTP-stream endpoint, up to its await: with the session
\* still in the table onClose is called and server.close() is awaited.
TransportOnClose(k) == [k EXCEPT !.res = "closed", !.closing = "awaiting"]

\* HTTP-stream endpoint, DELETE with the id of a session in the table: the transport
\* handles the request by closing itself, which runs transport.onclose.
HttpDelete(c) ==
    /\ transportType = "httpStream"
    /\ ~stopped
    /\ c \in activeTransports
    /\ conn[c].deleting = "none"
    /\ conn' = [conn EXCEPT ![c] = [TransportOnClose(@) EXCEPT !.deleting = "awaiting"]]
    /\ OnClose(conn[c].session)
    /\ UNCHANGED <<transportType, stopped, activeTransports>>
    /\ UNCHANGED exceptFacade

\* HTTP-stream endpoint, transport.onclose after server.close(): the session leaves
\* the table.
HttpClosed(c) ==
    /\ transportType = "httpStream"
    /\ conn[c].closing = "awaiting"
    /\ conn' = [conn EXCEPT ![c] = [@ EXCEPT !.closing = "done"]]
    /\ activeTransports' = activeTransports \ {c}
    /\ UNCHANGED <<transportType, stopped, sessions, events>>
    /\ UNCHANGED exceptFacade

\* HTTP-stream endpoint, the DELETE handler after transport.handleRequest: onClose.
HttpDeleted(c) ==
    /\ transportType = "httpStream"
    /\ conn[c].deleting = "awaiting"
    /\ conn' = [conn EXCEPT ![c] = [@ EXCEPT !.deleting = "done"]]
    /\ OnClose(conn[c].session)
    /\ UNCHANGED <<transportType, stopped, activeTransports>>
    /\ UNCHANGED exceptFacade

\* stop(): the listener's close() closes every transport of the table.  Ending an SSE
\* response raises its "close" event; closing an HTTP-stream transport runs
\* transport.onclose.
Stop ==
    /\ transportType \in {"sse", "httpStream"}
    /\ ~stopped
    /\ stopped' = TRUE
    /\ IF transportType = "sse"
       THEN /\ conn' = [c \in ConnIds |->
                          IF c \in activeTransports /\ conn[c].res = "open"
                          THEN ResClose(conn[c]) ELSE conn[c]]
            /\ UNCHANGED events
       ELSE /\ conn' = [c \in ConnIds |->
                          IF c \in activeTransports
                          THEN TransportOnClose(conn[c]) ELSE conn[c]]
            /\ events' = events \o
                           [i \in 1..Cardinality(activeTransports) |->
                              Event("disconnect", conn[Values(activeTransports)[i]].session)]
    /\ UNCHANGED <<transportType, activeTransports, sessions>>
    /\ UNCHANGED exceptFacade

\* new FastMCP(options): nothing started, no session.
InitFacade ==
    /\ transportType = "none"
    /\ stopped = FALSE
    /\ conn = [c \in ConnIds |-> NoConn]
    /\ activeTransports = {}
    /\ sessions = << >>
    /\ events = << >>

(***************************************************************************)
(* FastMCPSession.connect, close and the ping interval                     *)
(***************************************************************************)

\* while (attempt++ < 10)
MaxAttempts == 10

\* Number of connect() calls made on the session in one run.
MaxConnects == 2

\* Number of ticks of the ping interval in one run.
MaxProbes == 2

\* What the lifecycle of the session leaves alone, besides `connected`.
exceptLife == <<loggingLevel, request, handler, exec, timer, sent, responses,
                facadeVars, readVars, laterVars, unhandled>>

\* ping.enabled and roots.enabled of the server options: "undefined", "true", "false".
Settings == {"undefined", "true", "false"}

Options == [ping : Settings, roots : {"undefined", "false"}]

\* A transport object; type "untyped" stands for one without a `type` property.
NoTransport == [id |-> 0, type |-> "none"]

TransportKinds == {"sse", "httpStream", "stdio", "untyped"}

Transport(id, type) == [id |-> id, type |-> type]

\* The transports handed to connect(): any kind for the first call, a stdio transport
\* for a later one.
Transports == {Transport(1, type) : type \in TransportKinds}
                  \cup {Transport(id, "stdio") : id \in 2..MaxConnects}

\* Client capabilities: undefined, or whether `roots` is declared and with listChanged.
NoCapabilities == [known |-> FALSE, roots |-> FALSE, listChanged |-> FALSE]

Capabilities(hasRoots, listChanged) ==
    [known |-> TRUE, roots |-> hasRoots, listChanged |-> listChanged]

ClientCaps == {Capabilities(FALSE, FALSE), Capabilities(TRUE, FALSE), Capabilities(TRUE, TRUE)}

\* No connect() call in progress.
NotConnecting == [pc |-> "idle", attempt |-> 0, polls |-> 0, transport |-> NoTransport]

\* A check that never finds the server connected.
NeverConnected == FALSE

\* if (this.#server.transport)
AlreadyConnected == transport # NoTransport

\* A loop that allows one more attempt.
LoopOnceMore(attempt) == attempt < MaxAttempts + 1

\* attempt < 10 of the while condition
LoopContinues(attempt) == attempt < MaxAttempts

\* while (attempt++ < 10): the condition is evaluated, attempt is incremented, and the
\* body is entered or the loop is left.
EnterLoop(c) ==
    [c EXCEPT !.pc = IF LoopContinues(c.attempt) THEN "poll" ELSE "afterLoop",
              !.attempt = @ + 1]

\* A ping policy that looks at the transport only.
TransportDefaultOnly(t) == [enabled |-> t.type \in {"sse", "httpStream"}]

\* #getPingConfig(transport).enabled
GetPingConfig(t) ==
    [enabled |-> IF options.ping # "undefined"
                 THEN options.ping = "true"
                 ELSE t.type \in {"sse", "httpStream"}]

\* The connect() call in progress returns.
Returned(outcome) ==
    [k \in 1..Len(connects) |->
        IF connects[k].outcome = "pending" THEN [connects[k] EXCEPT !.outcome = outcome]
        ELSE connects[k]]

\* The end of connect(): if (this.#clientCapabilities) { pingConfig...; setInterval }.
Finish(c, caps) ==
    /\ pingInterval' = IF caps.known /\ GetPingConfig(c.transport).enabled
                       THEN "running" ELSE pingInterval
    /\ connecting' = [c EXCEPT !.pc = "done"]
    /\ connects' = Returned("ok")

\* After the loop: the roots fetch when the capabilities say roots.listChanged,
\* otherwise straight to the end of connect().
AfterLoop(c, caps) ==
    IF caps.listChanged
    THEN /\ connecting' = [c EXCEPT !.pc = "roots"]
         /\ UNCHANGED <<pingInterval, connects>>
    ELSE Finish(c, caps)

\* connect(transport) is called.
Connect(t) ==
    /\ ~closed
    /\ Len(connects) < MaxConnects
    /\ t.id = Len(connects) + 1
    /\ IF AlreadyConnected
       THEN /\ connects' = Append(connects, [transport |-> t, outcome |-> "UnexpectedStateError"])
            /\ UNCHANGED <<transport, connected, connecting>>
       ELSE /\ connects' = Append(connects, [transport |-> t, outcome |-> "pending"])
            /\ transport' = t
            /\ connected' = TRUE
            /\ connecting' = EnterLoop([NotConnecting EXCEPT !.transport = t])
    /\ UNCHANGED <<options, peerCapabilities, clientCapabilities, roots, pingInterval, probes,
                   closed>>
    /\ UNCHANGED exceptLife

\* The client's initialize request arrives: the protocol layer stores its capabilities.
ClientInitialize(caps) ==
    /\ connected
    /\ ~peerCapabilities.known
    /\ peerCapabilities' = caps
    /\ UNCHANGED <<options, transport, clientCapabilities, roots, pingInterval, connecting,
                   connects, probes, closed, connected>>
    /\ UNCHANGED exceptLife

\* await this.#server.getClientCapabilities() in the loop.
PollCapabilities ==
    /\ connecting.pc = "poll"
    /\ LET c == [connecting EXCEPT !.polls = @ + 1]
       IN  IF peerCapabilities.known
           THEN /\ clientCapabilities' = peerCapabilities
                /\ AfterLoop(c, peerCapabilities)
           ELSE /\ connecting' = [c EXCEPT !.pc = "delay"]
                /\ UNCHANGED <<clientCapabilities, pingInterval, connects>>
    /\ UNCHANGED <<options, transport, peerCapabilities, roots, probes, closed, connected>>
    /\ UNCHANGED exceptLife

\* await delay(100) returns and the while condition is evaluated again.
DelayElapsed ==
    /\ connecting.pc = "delay"
    /\ LET c == EnterLoop(connecting)
       IN  IF c.pc = "poll"
           THEN connecting' = c /\ UNCHANGED <<pingInterval, connects>>
           ELSE AfterLoop(c, clientCapabilities)
    /\ UNCHANGED <<options, transport, peerCapabilities, clientCapabilities, roots, probes,
                   closed, connected>>
    /\ UNCHANGED exceptLife

\* How the roots/list request of connect() may end: the client's list, its
\* MethodNotFound, or another failure; with the transport gone only the latter.
RootsOutcomes ==
    IF connecting.pc # "roots" THEN {}
    ELSE IF connected
         THEN { Returns(<< "Frontend Repository" >>),
                Throws(Err("McpError", "MethodNotFound")),
                Throws(Err("McpError", "RequestTimeout")) }
         ELSE { Throws(Err("McpError", "ConnectionClosed")) }

\* await this.#server.listRoots() settles; both kinds of failure are only logged.
RootsFetched(outcome) ==
    /\ connecting.pc = "roots"
    /\ roots' = IF outcome.threw THEN roots ELSE outcome.value
    /\ Finish(connecting, clientCapabilities)
    /\ UNCHANGED <<options, transport, peerCapabilities, clientCapabilities, probes, closed,
                   connected>>
    /\ UNCHANGED exceptLife

\* A ping interval that gives up after a probe that was not answered.
StopOnFailure(outcome) == IF outcome = "answered" THEN "running" ELSE "cleared"

\* The interval callback's try/catch: whatever the probe's fate, the interval goes on.
AfterProbe(outcome) == "running"

\* How a probe may end: answered, answered with an error, never answered (the request
\* times out); with the transport gone the request throws at once.
ProbeOutcomes ==
    IF connected THEN {"answered", "failed", "unanswered"} ELSE {"notConnected"}

\* A tick of the ping interval: await this.#server.ping() inside try/catch.
PingTick(outcome) ==
    /\ pingInterval = "running"
    /\ Len(probes) < MaxProbes
    /\ probes' = Append(probes, [sent |-> connected, outcome |-> outcome])
    /\ pingInterval' = AfterProbe(outcome)
    /\ UNCHANGED <<options, transport, peerCapabilities, clientCapabilities, roots, connecting,
                   connects, closed, connected>>
    /\ UNCHANGED exceptLife

\* close(): the interval, if any, is cleared and the protocol layer lets go of the
\* transport.
Close ==
    /\ connected
    /\ ~closed
    /\ closed' = TRUE
    /\ pingInterval' = IF pingInterval = "running" THEN "cleared" ELSE pingInterval
    /\ transport' = NoTransport
    /\ connected' = FALSE
    /\ UNCHANGED <<options, peerCapabilities, clientCapabilities, roots, connecting, connects,
                   probes>>
    /\ UNCHANGED exceptLife

\* new FastMCPSession(options): nothing is bound, known or running.
InitLifecycle ==
    /\ options \in Options
    /\ transport = NoTransport
    /\ peerCapabilities = NoCapabilities
    /\ clientCapabilities = NoCapabilities
    /\ roots = << >>
    /\ pingInterval = "null"
    /\ connecting = NotConnecting
    /\ connects = << >>
    /\ probes = << >>
    /\ closed = FALSE

\* A session in service: connected once over stdio with the default options, to a
\* client that declares no roots.
InService ==
    /\ options = [ping |-> "undefined", roots |-> "undefined"]
    /\ transport = Transport(1, "stdio")
    /\ peerCapabilities = Capabilities(FALSE, FALSE)
    /\ clientCapabilities = Capabilities(FALSE, FALSE)
    /\ roots = << >>
    /\ pingInterval = "null"
    /\ connecting = [pc |-> "done", attempt |-> 1, polls |-> 1,
                     transport |-> Transport(1, "stdio")]
    /\ connects = << [transport |-> Transport(1, "stdio"), outcome |-> "ok"] >>
    /\ probes = << >>
    /\ closed = FALSE

(***************************************************************************)
(* FastMCPSession.setupRootsHandlers: the roots/list_changed notification  *)
(***************************************************************************)

\* Number of roots/list_changed notifications the client sends in one run.
MaxNotifications == 2

\* The root lists a client may answer roots/list with.
RootLists == { << >>, << "Frontend Repository" >>,
               << "Frontend Repository", "Backend Repository" >> }

\* if (this.#rootsConfig?.enabled === false) return: otherwise the notification
\* handler is installed.
RootsHandlerInstalled == options.roots # "false"

\* A handler that adds the fetched roots to the ones it has.
MergeRoots(current, fetched) == current \o fetched

\* this.#roots = roots.roots
ReplaceRoots(current, fetched) == fetched

\* A roots/list_changed notification and the listRoots() call made for it, if any.
RootsNotification(fetch) == [fetch |-> fetch, settled |-> FALSE, outcome |-> Pending]

\* A roots/list_changed notification arrives: the handler, when installed, calls
\* listRoots() and returns; without a handler the notification is ignored.
RootsListChanged ==
    /\ connected
    /\ Len(rootsFetches) < MaxNotifications
    /\ rootsFetches' = Append(rootsFetches, RootsNotification(RootsHandlerInstalled))
    /\ UNCHANGED <<rootsEvents, unhandled, peers, registry, built, replies>>
    /\ UNCHANGED <<sessionVars, facadeVars, readVars, lifeVars>>

\* How the listRoots() call of notification i may settle now: the client's list, its
\* MethodNotFound, no answer in time; with the transport gone only a failure.
ListRootsOutcomes(i) ==
    IF i \in 1..Len(rootsFetches) /\ rootsFetches[i].fetch /\ ~rootsFetches[i].settled
    THEN IF connected
         THEN { Returns(list) : list \in RootLists }
                  \cup { Throws(Err("McpError", "MethodNotFound")),
                         Throws(Err("McpError", "RequestTimeout")) }
         ELSE { Throws(Err("McpError", "ConnectionClosed")) }
    ELSE { }

\* listRoots() settles: .then replaces #roots and emits "rootsChanged"; .catch logs.
RootsListed(i, outcome) ==
    /\ outcome \in ListRootsOutcomes(i)
    /\ rootsFetches' = [rootsFetches EXCEPT ![i] = [@ EXCEPT !.settled = TRUE,
                                                             !.outcome = outcome]]
    /\ IF outcome.threw
       THEN UNCHANGED <<roots, rootsEvents>>
       ELSE /\ roots' = ReplaceRoots(roots, outcome.value)
            /\ rootsEvents' = Append(rootsEvents, outcome.value)
    /\ UNCHANGED <<options, transport, peerCapabilities, clientCapabilities, pingInterval,
                   connecting, connects, probes, closed>>
    /\ UNCHANGED <<unhandled, peers, registry, built, replies>>
    /\ UNCHANGED <<sessionVars, facadeVars, readVars>>

(***************************************************************************)
(* Several sessions of one facade: createServer constructs a FastMCPSession *)
(* per connection, each with private fields of its own.                    *)
(***************************************************************************)

\* Number of sessions the facade creates in one run.
NumPeers == 2

PeerIds == 1..NumPeers

\* The private fields of a FastMCPSession as constructed.
NewSession ==
    [constructed |-> TRUE, loggingLevel |-> "info", roots |-> << >>,
     clientCapabilities |-> NoCapabilities, pingInterval |-> "null", closed |-> FALSE]

\* A session not constructed yet.
NoSession == [NewSession EXCEPT !.constructed = FALSE]

\* Fields kept once for the class: every session reads and writes the same ones.
StaticFields(s) == 1

\* Where the fields of session s are kept: #loggingLevel, #roots, #clientCapabilities
\* and #pingInterval are instance fields, so every session has its own.
FieldsOf(s) == s

\* The fields session s reads.
Peer(s) == peers.fields[FieldsOf(s)]

\* Session s assigns its fields.
Assign(s, fields) ==
    /\ peers' = [fields |-> [peers.fields EXCEPT ![FieldsOf(s)] = fields], last |-> s]
    /\ UNCHANGED <<rootsFetches, rootsEvents, registry, built, replies, unhandled>>
    /\ UNCHANGED <<sessionVars, facadeVars, readVars, lifeVars>>

\* createServer: new FastMCPSession(...)
PeerCreate(s) ==
    /\ ~Peer(s).constructed
    /\ Assign(s, NewSession)

InUse(s) == Peer(s).constructed /\ ~Peer(s).closed

\* connect(): the client's capabilities are stored, the roots fetched and the ping
\* interval started.
PeerConnect(s, list) ==
    /\ InUse(s)
    /\ ~Peer(s).clientCapabilities.known
    /\ Assign(s, [Peer(s) EXCEPT !.clientCapabilities = Capabilities(TRUE, TRUE),
                                 !.roots = list,
                                 !.pingInterval = "running"])

\* logging/setLevel on session s
PeerSetLevel(s, level) ==
    /\ InUse(s)
    /\ Peer(s).clientCapabilities.known
    /\ Assign(s, [Peer(s) EXCEPT !.loggingLevel = level])

\* roots/list_changed on session s, and the list fetched for it
PeerRootsChanged(s, list) ==
    /\ InUse(s)
    /\ Peer(s).clientCapabilities.known
    /\ Assign(s, [Peer(s) EXCEPT !.roots = ReplaceRoots(@, list)])

\* tools/call on session s: the handler assigns none of the fields.
PeerCallTool(s) ==
    /\ InUse(s)
    /\ Peer(s).clientCapabilities.known
    /\ Assign(s, Peer(s))

\* close() of session s
PeerClose(s) ==
    /\ InUse(s)
    /\ Assign(s, [Peer(s) EXCEPT !.closed = TRUE,
                                 !.pingInterval = IF @ = "running" THEN "cleared" ELSE @])

PeerRootLists == { << >>, << "Frontend Repository" >> }

NextPeers ==
    \E s \in PeerIds :
        \/ PeerCreate(s)
        \/ \E list \in PeerRootLists : PeerConnect(s, list)
        \/ \E level \in RequestedLevels : PeerSetLevel(s, level)
        \/ \E list \in PeerRootLists : PeerRootsChanged(s, list)
        \/ PeerCallTool(s)
        \/ PeerClose(s)

(***************************************************************************)
(* The registry: FastMCP.addTool / addResource / addResourceTemplate /     *)
(* addPrompt and the FastMCPSession constructor                            *)
(***************************************************************************)

\* Number of registrations made on the facade in one run.
MaxEntries == 3

Kinds == {"tools", "resources", "resourcesTemplates", "prompts"}

EntryNames == {"alpha", "beta"}

NoEntries == [kind \in Kinds |-> << >>]

\* No session constructed yet.
NotBuilt == [constructed |-> FALSE, handlers |-> {}, registered |-> NoEntries,
             resourceTemplates |-> << >>, prompts |-> << >>]

\* this.#tools.push(tool), this.#resources.push(resource), ...
AddEntry(kind, name) ==
    /\ Len(registry.tools) + Len(registry.resources) + Len(registry.resourcesTemplates)
         + Len(registry.prompts) < MaxEntries
    /\ registry' = [registry EXCEPT ![kind] = Append(@, name)]
    /\ UNCHANGED <<built, rootsFetches, rootsEvents, peers, replies, unhandled>>
    /\ UNCHANGED <<sessionVars, facadeVars, readVars, lifeVars>>

\* The request handlers the constructor sets up for the arrays it is given.
HandlersFor(entries) ==
    {"logging", "completion"}
      \cup (IF Len(entries.tools) # 0 THEN {"tools"} ELSE {})
      \cup (IF Len(entries.resources) # 0 \/ Len(entries.resourcesTemplates) # 0
            THEN {"resources"} ELSE {})
      \cup (IF Len(entries.resourcesTemplates) # 0 THEN {"resourcesTemplates"} ELSE {})
      \cup (IF Len(entries.prompts) # 0 THEN {"prompts"} ELSE {})

\* new FastMCPSession({tools: this.#tools, resources: this.#resources, ...}): the
\* handlers are set up over the arrays passed in; the prompts and the resource
\* templates are also copied into #prompts and #resourceTemplates.
Construct ==
    /\ ~built.constructed
    /\ built' = [constructed |-> TRUE, handlers |-> HandlersFor(registry),
                 registered |-> registry,
                 resourceTemplates |-> registry.resourcesTemplates,
                 prompts |-> registry.prompts]
    /\ UNCHANGED <<registry, rootsFetches, rootsEvents, peers, replies, unhandled>>
    /\ UNCHANGED <<sessionVars, facadeVars, readVars, lifeVars>>

\* The set of the elements of a sequence.
Range(seq) == {seq[i] : i \in 1..Len(seq)}

\* What the list handler of a kind returns: the handler maps over the array the
\* constructor was given, which is the facade's own array.
Listed(kind) == IF kind \in built.handlers THEN registry[kind] ELSE << >>

\* The names a call, read or get can resolve: tools.find, resources.find and
\* prompts.find search the array the constructor was given; the template loop runs
\* over this.#resourceTemplates.
Resolvable(kind) ==
    CASE kind = "tools"     -> IF "tools" \in built.handlers THEN Range(registry.tools) ELSE {}
      [] kind = "resources" -> IF "resources" \in built.handlers
                               THEN Range(registry.resources) ELSE {}
      [] kind = "resourcesTemplates" ->
                               IF "resources" \in built.handlers
                               THEN Range(built.resourceTemplates) ELSE {}
      [] kind = "prompts"   -> IF "prompts" \in built.handlers
                               THEN Range(registry.prompts) ELSE {}

NextRegistry ==
    \/ \E kind \in Kinds : \E name \in EntryNames : AddEntry(kind, name)
    \/ Construct

(***************************************************************************)
(* The listeners' routes that open no connection: OPTIONS, GET /health,    *)
(* GET /ping, POST /messages (SSE) and everything else                     *)
(***************************************************************************)

\* The session ids a client may present: none (0), the id of the transport of a
\* connection, one that was never issued.
NeverIssued == NumConn + 1
PresentedIds == 0..NeverIssued

HttpRequest(method, url, sessionId) == [method |-> method, url |-> url, sessionId |-> sessionId]

\* Requests that carry no session id, and the POSTs to /messages.
PlainRequests ==
    { HttpRequest("GET", "/ping", 0), HttpRequest("GET", "/health", 0),
      HttpRequest("OPTIONS", "/sse", 0), HttpRequest("GET", "/favicon.ico", 0) }

PostRequests == { HttpRequest("POST", "/messages", id) : id \in PresentedIds }

\* A listener without the /ping route.
RouteWithoutPing(type, req) ==
    CASE req.method = "OPTIONS" -> "preflight"
      [] req.method = "GET" /\ req.url = "/health" /\ type = "sse" -> "health"
      [] req.method = "POST" /\ req.url = "/messages" /\ type = "sse" -> "messages"
      [] OTHER -> "unhandled"

\* The chain of tests of the listener of transportType `type`, in order.
Route(type, req) ==
    CASE req.method = "OPTIONS" -> "preflight"
      [] req.method = "GET" /\ req.url = "/health" /\ type = "sse" -> "health"
      [] req.method = "GET" /\ req.url = "/ping" -> "ping"
      [] req.method = "POST" /\ req.url = "/messages" /\ type = "sse" -> "messages"
      [] OTHER -> "unhandled"

HttpReply(req, status, body, delivered) ==
    [request |-> req, status |-> status, body |-> body, delivered |-> delivered,
     connection |-> IF req.sessionId \in ConnIds
                    THEN [res |-> conn[req.sessionId].res,
                          closing |-> conn[req.sessionId].closing]
                    ELSE [res |-> "none", closing |-> "none"]]

\* POST /messages of the SSE listener: the session id is looked up in the table and
\* the request handed to the transport found, which accepts it.
PostMessage(req) ==
    IF req.sessionId = 0
    THEN HttpReply(req, 400, "No sessionId", FALSE)
    ELSE IF req.sessionId \notin activeTransports
         THEN HttpReply(req, 400, "No active transport", FALSE)
         ELSE HttpReply(req, 202, "Accepted", TRUE)

\* What the listener answers a request with.
Answered(type, req) ==
    LET route == Route(type, req)
    IN  CASE route = "preflight" -> HttpReply(req, 204, "", FALSE)
          [] route = "health"    -> HttpReply(req, 200, "OK", FALSE)
          [] route = "ping"      -> HttpReply(req, 200, "pong", FALSE)
          [] route = "messages"  -> PostMessage(req)
          [] OTHER               -> HttpReply(req, 404, "", FALSE)

\* The listener receives a request.
Serve(req) ==
    /\ transportType \in {"sse", "httpStream"}
    /\ ~stopped
    /\ replies' = << Answered(transportType, req) >>
    /\ UNCHANGED <<rootsFetches, rootsEvents, peers, registry, built, unhandled>>
    /\ UNCHANGED <<sessionVars, facadeVars, readVars, lifeVars>>

(***************************************************************************)
(* InMemoryEventStore                                                      *)
(***************************************************************************)

\* Number of events stored in one run, and the milliseconds Date.now() passes through.
MaxEvents == 3
MaxTime == 2

\* What the event store leaves alone.
exceptApart == <<sessionVars, facadeVars, lifeVars, laterVars, unhandled, loads>>
exceptEventStore == <<exceptApart, stdio, backend>>

\* The stream ids the transport hands to storeEvent (randomUUID() in the SDK).
StreamIds == {"5c1e", "9d07"}

\* Math.random().toString(36).substring(2, 10)
RandomSuffixes == {"4fzq", "k0x2"}

\* The characters of the event ids, in the order localeCompare ranks them:
\* punctuation, digits, letters.
Alphabet == <<"_", "0", "1", "2", "3", "4", "5", "7", "9", "c", "d", "e", "f", "k", "q", "x", "z">>

Rank(ch) == CHOOSE i \in 1..Len(Alphabet) : Alphabet[i] = ch

\* String(Date.now())
TimeString(n) == Alphabet[n + 2]

\* a.localeCompare(b): negative, zero or positive.
RECURSIVE LocaleCompare(_, _)
LocaleCompare(a, b) ==
    IF Len(a) = 0 \/ Len(b) = 0
    THEN IF Len(a) = Len(b) THEN 0 ELSE IF Len(a) = 0 THEN -1 ELSE 1
    ELSE LET x == Rank(SubSeq(a, 1, 1))
             y == Rank(SubSeq(b, 1, 1))
         IN  IF x < y THEN -1
             ELSE IF x > y THEN 1
             ELSE LocaleCompare(SubSeq(a, 2, Len(a)), SubSeq(b, 2, Len(b)))

\* `${streamId}_${Date.now()}_${Math.random()...}`
GenerateEventId(streamId, now, random) == streamId \o "_" \o TimeString(now) \o "_" \o random

\* eventId.split("_")[0]
RECURSIVE GetStreamIdFromEventId(_)
GetStreamIdFromEventId(eventId) ==
    IF Len(eventId) = 0 \/ SubSeq(eventId, 1, 1) = "_"
    THEN ""
    ELSE SubSeq(eventId, 1, 1) \o GetStreamIdFromEventId(SubSeq(eventId, 2, Len(eventId)))

\* The event store: the map (event id -> message and stream id), Date.now(), the ids
\* in the order storeEvent returned them, and the last replay.
NoReplay == [lastEventId |-> "", sent |-> << >>, returned |-> "", done |-> FALSE]

NoEvents == [events |-> {}, now |-> 1, order |-> << >>, replay |-> NoReplay]

Entry(eventId, message, streamId) == [id |-> eventId, message |-> message, streamId |-> streamId]

EventIds == {en.id : en \in eventStore.events}

EntryOf(eventId) == CHOOSE en \in eventStore.events : en.id = eventId

\* [...this.events.entries()].sort((a, b) => a[0].localeCompare(b[0]))
RECURSIVE SortedEvents(_)
SortedEvents(entries) ==
    IF entries = {} THEN << >>
    ELSE LET first == CHOOSE en \in entries :
                         \A other \in entries : LocaleCompare(en.id, other.id) <= 0
         IN  << first >> \o SortedEvents(entries \ {first})

\* The loop of replayEventsAfter over the sorted entries: what it passes to send.
RECURSIVE ReplayLoop(_, _, _, _)
ReplayLoop(sorted, streamId, lastEventId, foundLastEvent) ==
    IF sorted = << >> THEN << >>
    ELSE LET en == Head(sorted)
             rest == Tail(sorted)
         IN  IF en.streamId # streamId
             THEN ReplayLoop(rest, streamId, lastEventId, foundLastEvent)
             ELSE IF en.id = lastEventId
                  THEN ReplayLoop(rest, streamId, lastEventId, TRUE)
                  ELSE IF foundLastEvent
                       THEN << [eventId |-> en.id, message |-> en.message] >>
                               \o ReplayLoop(rest, streamId, lastEventId, foundLastEvent)
                       ELSE ReplayLoop(rest, streamId, lastEventId, foundLastEvent)

\* replayEventsAfter(lastEventId, {send}): what is sent and what is returned.
ReplayEventsAfter(lastEventId) ==
    IF lastEventId = "" \/ lastEventId \notin EventIds
    THEN [lastEventId |-> lastEventId, sent |-> << >>, returned |-> "", done |-> TRUE]
    ELSE LET streamId == GetStreamIdFromEventId(lastEventId)
         IN  IF streamId = ""
             THEN [lastEventId |-> lastEventId, sent |-> << >>, returned |-> "", done |-> TRUE]
             ELSE [lastEventId |-> lastEventId,
                   sent |-> ReplayLoop(SortedEvents(eventStore.events), streamId, lastEventId, FALSE),
                   returned |-> streamId, done |-> TRUE]

\* Date.now() moves on.
Tick ==
    /\ eventStore.now < MaxTime
    /\ eventStore' = [eventStore EXCEPT !.now = @ + 1]
    /\ UNCHANGED exceptEventStore

\* storeEvent(streamId, message); the messages are numbered as they are stored, and
\* the random suffix of an id is one no earlier id of the same stream and millisecond
\* got.
StoreEvent(streamId, random) ==
    /\ Len(eventStore.order) < MaxEvents
    /\ LET eventId == GenerateEventId(streamId, eventStore.now, random)
           message == Len(eventStore.order) + 1
       IN  /\ eventId \notin EventIds
           /\ eventStore' = [eventStore EXCEPT
                               !.events = @ \cup {Entry(eventId, message, streamId)},
                               !.order = Append(@, eventId)]
    /\ UNCHANGED exceptEventStore

\* The ids a client presents as Last-Event-ID: one it received, none, one of a store
\* that is gone.
LastEventIds == EventIds \cup {"", "5c1e_0_zzzz"}

Replay(lastEventId) ==
    /\ eventStore' = [eventStore EXCEPT !.replay = ReplayEventsAfter(lastEventId)]
    /\ UNCHANGED exceptEventStore

(***************************************************************************)
(* StdioClientTransport                                                    *)
(***************************************************************************)

\* Number of start() calls that spawn a child, of close() calls, and of frames the
\* children write in one run.
MaxStarts == 2
MaxCloses == 2
MaxFrames == 2

exceptStdio == <<exceptApart, eventStore, backend>>

\* The lines a child writes to its stdout: two messages, a line cut short, an empty
\* line.
Frames == {"[1]", "[2]", "[1", ""}

Digits == {"0", "1", "2", "3", "4", "5", "7", "9"}

\* deserializeMessage(line): JSON.parse and the schema accept the line or throw.
Deserialize(line) ==
    IF Len(line) = 3 /\ SubSeq(line, 1, 1) = "[" /\ SubSeq(line, 3, 3) = "]"
          /\ SubSeq(line, 2, 2) \in Digits
    THEN Returns(SubSeq(line, 2, 2))
    ELSE Throws(Err("SyntaxError", line))

\* buffer.indexOf("\n"), counted from 1; 0 when there is none.
RECURSIVE IndexOfNewline(_, _)
IndexOfNewline(buffer, from) ==
    IF from > Len(buffer) THEN 0
    ELSE IF SubSeq(buffer, from, from) = "\n" THEN from
    ELSE IndexOfNewline(buffer, from + 1)

\* A read loop that gives up at the first line that does not parse and leaves it in
\* the buffer.
RECURSIVE ProcessUntilError(_)
ProcessUntilError(t) ==
    LET index == IndexOfNewline(t.readBuffer, 1)
    IN  IF index = 0 THEN t
        ELSE LET message == Deserialize(SubSeq(t.readBuffer, 1, index - 1))
             IN  IF message.threw
                 THEN [t EXCEPT !.errors = Append(@, message.error)]
                 ELSE ProcessUntilError([t EXCEPT
                         !.readBuffer = SubSeq(t.readBuffer, index + 1, Len(t.readBuffer)),
                         !.delivered = Append(@, message.value)])

\* processReadBuffer(): readMessage() takes the first line off the buffer and parses
\* it; a message goes to onmessage, an exception to onerror, and the loop goes on until
\* the buffer holds no complete line.
RECURSIVE ProcessReadBuffer(_)
ProcessReadBuffer(t) ==
    LET index == IndexOfNewline(t.readBuffer, 1)
    IN  IF index = 0 THEN t
        ELSE LET message == Deserialize(SubSeq(t.readBuffer, 1, index - 1))
                 rest == [t EXCEPT !.readBuffer = SubSeq(t.readBuffer, index + 1, Len(t.readBuffer))]
             IN  IF message.threw
                 THEN ProcessReadBuffer([rest EXCEPT !.errors = Append(@, message.error)])
                 ELSE ProcessReadBuffer([rest EXCEPT !.delivered = Append(@, message.value)])

\* A child process as the transport's listeners see it.
\*   state     : "spawning" (spawn() returned), "running" ("spawn" emitted), "failed"
\*               ("error" emitted for the spawn), "exited", "closed" ("close" emitted)
\*   spawned   : the operating system started the process
\*   abortDue  : spawned with a signal already aborted: the abort runs on the next tick
\*   pipe      : what the child wrote to stdout and the transport has not read
\*   onclose   : the calls of onclose its listeners made
\*   promise   : the promise of the start() call that spawned it
Child(spawned, aborted) ==
    [state |-> "spawning", spawned |-> spawned, abortDue |-> aborted, pipe |-> "",
     onclose |-> 0, promise |-> "pending"]

\* new StdioClientTransport(params)
NewTransport ==
    [process |-> 0, aborted |-> FALSE, children |-> << >>, readBuffer |-> "",
     delivered |-> << >>, errors |-> << >>, written |-> << >>, closes |-> 0,
     raised |-> << >>]

ChildIds == 1..Len(stdio.children)

\* child.kill() finds a process to signal.
Alive(child) == child.spawned /\ child.state \in {"spawning", "running"}

\* The abort of the signal reaches a child: when kill() succeeds "error" is emitted
\* with an AbortError, whose listener calls onclose.
Abort(child) == IF Alive(child) THEN [child EXCEPT !.onclose = @ + 1] ELSE child

\* An abort that emits nothing.
AbortSilently(child) == child

\* start(): with a process at hand it throws; otherwise a child is spawned with the
\* controller's signal and the promise waits for "spawn" or "error".
StdioStart(spawned) ==
    IF stdio.process # 0
    THEN /\ Len(stdio.raised) < MaxRaised
         /\ stdio' = [stdio EXCEPT !.raised = Append(@, Err("Error", "StdioClientTransport already started!"))]
         /\ UNCHANGED exceptStdio
    ELSE /\ Len(stdio.children) < MaxStarts
         /\ stdio' = [stdio EXCEPT !.children = Append(@, Child(spawned, stdio.aborted)),
                                   !.process = Len(stdio.children) + 1]
         /\ UNCHANGED exceptStdio

\* "spawn" is emitted: resolve().
Spawned(k) ==
    /\ stdio.children[k].state = "spawning"
    /\ stdio.children[k].spawned
    /\ stdio' = [stdio EXCEPT !.children[k].state = "running", !.children[k].promise = "resolved"]
    /\ UNCHANGED exceptStdio

\* "error" is emitted because the command could not be spawned: reject(error) and
\* onerror(error).
SpawnFailed(k) ==
    /\ stdio.children[k].state = "spawning"
    /\ ~stdio.children[k].spawned
    /\ stdio' = [stdio EXCEPT !.children[k].state = "failed", !.children[k].promise = "rejected",
                              !.errors = Append(@, Err("Error", "spawn ENOENT"))]
    /\ UNCHANGED exceptStdio

\* The next tick of a child spawned with an aborted signal, after "spawn" or "error".
AbortTick(k) ==
    /\ stdio.children[k].abortDue
    /\ stdio.children[k].state # "spawning"
    /\ stdio' = [stdio EXCEPT !.children[k] = [Abort(@) EXCEPT !.abortDue = FALSE]]
    /\ UNCHANGED exceptStdio

\* The child writes a line to its stdout.
ChildWrite(k, frame) ==
    /\ Alive(stdio.children[k])
    /\ Len(stdio.written) < MaxFrames
    /\ stdio' = [stdio EXCEPT !.children[k].pipe = @ \o frame \o "\n",
                              !.written = Append(@, frame)]
    /\ UNCHANGED exceptStdio

\* "data" on the child's stdout: the chunk is appended and the buffer processed.
StdoutData(k, n) ==
    /\ n \in 1..Len(stdio.children[k].pipe)
    /\ LET pipe == stdio.children[k].pipe
           read == [stdio EXCEPT !.children[k].pipe = SubSeq(pipe, n + 1, Len(pipe)),
                                 !.readBuffer = @ \o SubSeq(pipe, 1, n)]
       IN  stdio' = ProcessReadBuffer(read)
    /\ UNCHANGED exceptStdio

\* The child process ends, by itself or by the signal.
ChildExit(k) ==
    /\ Alive(stdio.children[k])
    /\ stdio.children[k].state = "running"
    /\ stdio' = [stdio EXCEPT !.children[k].state = "exited"]
    /\ UNCHANGED exceptStdio

\* "close" is emitted once the child has ended and its stdout is read to the end (a
\* child that could not be spawned may emit it too): process = undefined, onclose().
ChildClose(k) ==
    /\ stdio.children[k].state \in {"exited", "failed"}
    /\ stdio.children[k].pipe = ""
    /\ ~stdio.children[k].abortDue
    /\ stdio' = [stdio EXCEPT !.children[k].state = "closed", !.children[k].onclose = @ + 1,
                              !.process = 0]
    /\ UNCHANGED exceptStdio

\* A close() that signals the children on every call.
CloseTransportAbortingAgain(t) ==
    [t EXCEPT !.aborted = TRUE,
              !.children = [k \in 1..Len(@) |-> Abort(@[k])],
              !.process = 0,
              !.readBuffer = ""]

\* close() as a function of the transport: abort() (which reaches the children only
\* the first time), process = undefined, readBuffer.clear().
CloseTransport(t) ==
    [t EXCEPT !.aborted = TRUE,
              !.children = IF t.aborted THEN @ ELSE [k \in 1..Len(@) |-> Abort(@[k])],
              !.process = 0,
              !.readBuffer = ""]

StdioClose ==
    /\ stdio.closes < MaxCloses
    /\ stdio' = [CloseTransport(stdio) EXCEPT !.closes = @ + 1]
    /\ UNCHANGED exceptStdio

\* The fields of the session close() works on.
SessionFields ==
    [pingInterval |-> pingInterval, transport |-> transport, connected |-> connected,
     closed |-> closed]

\* FastMCPSession.close() as a function of those fields: clearInterval when there is
\* an interval, then server.close() inside try/catch, which lets go of the transport if
\* there is one.
CloseSession(s) ==
    [pingInterval |-> IF s.pingInterval = "running" THEN "cleared" ELSE s.pingInterval,
     transport |-> NoTransport,
     connected |-> FALSE,
     closed |-> TRUE]

\* close() is called on the session, whatever state it is in.
SessionClose ==
    /\ pingInterval' = CloseSession(SessionFields).pingInterval
    /\ transport' = CloseSession(SessionFields).transport
    /\ connected' = CloseSession(SessionFields).connected
    /\ closed' = CloseSession(SessionFields).closed
    /\ UNCHANGED <<options, peerCapabilities, clientCapabilities, roots, connecting, connects,
                   probes>>
    /\ UNCHANGED exceptLife

(***************************************************************************)
(* The grading backend: the routers of mapel, siswa and penilaian          *)
(***************************************************************************)

\* Number of POST requests a router receives in one run.
MaxPosts == 3

exceptBackend == <<exceptApart, eventStore, stdio>>

Routers == {"mapel", "siswa", "penilaian"}

\* req.params.id: decimal numbers, text that starts with one, text that does not.
Params == {"1", "2", "3", "4", "2x", "x"}

NaN == 0 - 1

DigitValue(ch) ==
    CASE ch = "0" -> 0 [] ch = "1" -> 1 [] ch = "2" -> 2 [] ch = "3" -> 3 [] ch = "4" -> 4
      [] ch = "5" -> 5 [] ch = "6" -> 6 [] ch = "7" -> 7 [] ch = "8" -> 8 [] ch = "9" -> 9
      [] OTHER -> NaN

\* parseInt(text): the number its leading digits spell, NaN without any.
RECURSIVE ParseDigits(_, _)
ParseDigits(text, value) ==
    IF Len(text) = 0 \/ DigitValue(SubSeq(text, 1, 1)) = NaN THEN value
    ELSE ParseDigits(SubSeq(text, 2, Len(text)), 10 * value + DigitValue(SubSeq(text, 1, 1)))

ParseInt(text) ==
    IF Len(text) = 0 \/ DigitValue(SubSeq(text, 1, 1)) = NaN THEN NaN ELSE ParseDigits(text, 0)

\* The request bodies: those of POST name the fields of a new record, those of PUT
\* any fields.
PostBodies(router) ==
    IF router = "penilaian"
    THEN {[siswaId |-> 1, mapelId |-> 1, nilai |-> nilai] : nilai \in {80, 90}}
    ELSE {[nama |-> nama] : nama \in {"Matematika", "Fisika"}}

PutBodies(router) ==
    IF router = "penilaian"
    THEN {[nilai |-> 75]} \cup {[id |-> id] : id \in 1..2}
    ELSE {[nama |-> "Kimia"]} \cup {[id |-> id, nama |-> "Kimia"] : id \in 1..2}

\* The module state of a router (`let <name> = []; let idCounter = 1;`), the latest
\* response, the id each stored record was created with and the ids assigned so far.
NoRecords ==
    [router |-> "none", records |-> << >>, idCounter |-> 1, reply |-> [status |-> 0],
     origin |-> << >>, assigned |-> << >>]

\* array.findIndex(r => r.id === parseInt(req.params.id)), counted from 1; 0 for -1.
FindIndex(records, param) ==
    IF \E i \in 1..Len(records) : records[i].id = ParseInt(param)
    THEN CHOOSE i \in 1..Len(records) :
            /\ records[i].id = ParseInt(param)
            /\ \A j \in 1..(i - 1) : records[j].id # ParseInt(param)
    ELSE 0

\* array.splice(idx, 1)
Splice(seq, idx) == SubSeq(seq, 1, idx - 1) \o SubSeq(seq, idx + 1, Len(seq))

\* { ...record, ...body }
Spread(record, body) ==
    [f \in DOMAIN record \cup DOMAIN body |-> IF f \in DOMAIN body THEN body[f] ELSE record[f]]

\* The record PUT stores: penilaian spreads the body over the record, mapel and siswa
\* assign `nama`.
Update(router, record, body) ==
    IF router = "penilaian"
    THEN Spread(record, body)
    ELSE [record EXCEPT !.nama = body.nama]

NotFound == [status |-> 404, body |-> [message |-> "tidak ditemukan"]]

\* One run addresses one router: each module has its own array and idCounter.
Addressed(router) ==
    /\ backend.router \in {"none", router}

\* POST /
BackendPost(router, body) ==
    /\ Addressed(router)
    /\ Len(backend.assigned) < MaxPosts
    /\ LET newRecord == Spread([id |-> backend.idCounter], body)
       IN  backend' = [backend EXCEPT !.router = router,
                                      !.idCounter = @ + 1,
                                      !.records = Append(@, newRecord),
                                      !.reply = [status |-> 201, body |-> newRecord],
                                      !.origin = Append(@, backend.idCounter),
                                      !.assigned = Append(@, backend.idCounter)]
    /\ UNCHANGED exceptBackend

\* GET /:id
BackendGet(router, param) ==
    /\ Addressed(router)
    /\ LET found == FindIndex(backend.records, param)
       IN  backend' = [backend EXCEPT !.router = router,
                                      !.reply = IF found = 0 THEN NotFound
                                                ELSE [status |-> 200, body |-> backend.records[found]]]
    /\ UNCHANGED exceptBackend

\* PUT /:id
BackendPut(router, param, body) ==
    /\ Addressed(router)
    /\ LET idx == FindIndex(backend.records, param)
       IN  IF idx = 0
           THEN backend' = [backend EXCEPT !.router = router, !.reply = NotFound]
           ELSE LET updated == Update(router, backend.records[idx], body)
                IN  backend' = [backend EXCEPT !.router = router,
                                               !.records[idx] = updated,
                                               !.reply = [status |-> 200, body |-> updated]]
    /\ UNCHANGED exceptBackend

\* DELETE /:id
BackendDelete(router, param) ==
    /\ Addressed(router)
    /\ LET idx == FindIndex(backend.records, param)
       IN  IF idx = 0
           THEN backend' = [backend EXCEPT !.router = router, !.reply = NotFound]
           ELSE backend' = [backend EXCEPT !.router = router,
                                           !.records = Splice(@, idx),
                                           !.origin = Splice(@, idx),
                                           !.reply = [status |-> 204]]
    /\ UNCHANGED exceptBackend

\* The later sections' variables as they start.
InitLater ==
    /\ unhandled = << >>
    /\ rootsFetches = << >>
    /\ rootsEvents = << >>
    /\ peers = [fields |-> [s \in PeerIds |-> NoSession], last |-> 0]
    /\ registry = NoEntries
    /\ built = NotBuilt
    /\ replies = << >>
    /\ eventStore = NoEvents
    /\ stdio = NewTransport
    /\ backend = NoRecords

\* No load() has been called.
InitRead == loads = << >>

Init == InitSession /\ InitFacade /\ InitRead /\ InService /\ InitLater

\* A session just constructed, not connected yet.
InitConnect ==
    /\ loggingLevel = "info"
    /\ connected = FALSE
    /\ request = << >>
    /\ handler = [r \in ReqIds |-> "idle"]
    /\ exec = [r \in ReqIds |-> NoExec]
    /\ timer = [r \in ReqIds |-> "none"]
    /\ sent = [r \in ReqIds |-> << >>]
    /\ responses = << >>
    /\ InitFacade /\ InitRead /\ InitLifecycle /\ InitLater

NextConnect ==
    \/ \E t \in Transports : Connect(t)
    \/ \E caps \in ClientCaps : ClientInitialize(caps)
    \/ PollCapabilities
    \/ DelayElapsed
    \/ \E outcome \in RootsOutcomes : RootsFetched(outcome)
    \/ \E outcome \in ProbeOutcomes : PingTick(outcome)
    \/ Close
    \/ probes # << >> /\ SetLevel("debug")

SpecConnect == InitConnect /\ [][NextConnect]_vars

\* The handshake alone, with every awaited step of connect() eventually taken.
NextHandshake ==
    \/ \E t \in Transports : Connect(t)
    \/ \E caps \in ClientCaps : ClientInitialize(caps)
    \/ PollCapabilities
    \/ DelayElapsed
    \/ \E outcome \in RootsOutcomes : RootsFetched(outcome)
    \/ Close

SpecHandshake ==
    /\ InitConnect
    /\ [][NextHandshake]_vars
    /\ WF_vars(PollCapabilities)
    /\ WF_vars(DelayElapsed)
    /\ WF_vars(\E outcome \in RootsOutcomes : RootsFetched(outcome))

(***************************************************************************)
(* Properties of the tools/call handler (SpecTool)                         *)
(***************************************************************************)
Received == 1..Len(request)
IsCall(r) == r \in Received /\ request[r].method = "tools/call"
Registered(r) == IsCall(r) /\ request[r].name \in ToolNames
ToolOf(r) == tools[FindTool(request[r].name)]
Done(r) == handler[r] = "done"
IsResponse(m) == m.method = "response"
IsProgress(m) == m.method = "notifications/progress"
IsLogging(m) == m.method = "notifications/message"
ResponsesOf(r) == SelectSeq(sent[r], IsResponse)

\* The calls request r's tool has made on its context so far.
CallsMade(r) == SubSeq(Body(request[r].name), 1, exec[r].pc)
IsReport(c) == c.op = "reportProgress"
IsLog(c) == c.op = "log"

\* A call whose arguments violate the schema its tool declares.
ViolatesSchema(r) ==
    Registered(r) /\ ToolOf(r).parameters /\ request[r].arguments = "invalid"

\* A valid call of the tool "add", whose normal result is the text "3".
ValidAdd(r) == IsCall(r) /\ request[r].name = "add" /\ request[r].arguments = "valid"
AnsweredThree(r) == sent[r] = << Response(r, Result(<< Text("3") >>, FALSE)) >>

\* C1: a call whose arguments violate the tool's schema is answered with the protocol
\* error InvalidParams and the tool's execute function is never invoked for it; a
\* valid call of the tool on the same session afterwards gets its normal result.
C1_InvalidParams ==
    \A r \in Received :
        /\ ViolatesSchema(r) =>
              /\ exec[r] = NoExec /\ timer[r] = "none"
              /\ handler[r] \in {"validate", "done"}
              /\ Done(r) => /\ Len(sent[r]) = 1
                            /\ sent[r][1].method = "response" /\ sent[r][1].id = r
                            /\ sent[r][1].payload.kind = "error"
                            /\ sent[r][1].payload.code = "InvalidParams"
        /\ \A q \in Received :
              (q < r /\ ViolatesSchema(q) /\ ValidAdd(r) /\ Done(r)) => AnsweredThree(r)

C1_Witness ==
    /\ Len(request) = 2
    /\ ViolatesSchema(1) /\ request[1].name = "add" /\ Done(1)
    /\ responses = << 1, 2 >>
    /\ ValidAdd(2) /\ AnsweredThree(2)

\* The deadline of request r fired while the tool's execute function was still running.
RunsLongerThanTimeout(r) ==
    IsCall(r) /\ timer[r] = "fired" /\ (exec[r].st = "running" \/ exec[r].afterDeadline)

TimedOutText(r) == "Tool execution timed out after " \o ToString(ToolOf(r).timeoutMs) \o "ms"

\* C2: when a tool with timeoutMs = T runs longer than T, the call is answered with a
\* result (not a protocol error) flagged isError whose single text item is "Tool
\* execution timed out after Tms"; later calls on the session are answered normally.
C2_Timeout ==
    \A r \in Received :
        /\ RunsLongerThanTimeout(r) =>
              /\ ToolOf(r).timeoutMs # 0
              /\ Done(r)
              /\ ResponsesOf(r) = << Response(r, Result(<< Text(TimedOutText(r)) >>, TRUE)) >>
        /\ \A q \in Received :
              (q < r /\ RunsLongerThanTimeout(q) /\ ValidAdd(r) /\ Done(r)) => AnsweredThree(r)

C2_Witness ==
    /\ Len(request) = 2
    /\ RunsLongerThanTimeout(1) /\ exec[1].st = "returned"
    /\ responses = << 1, 2 >>
    /\ ValidAdd(2) /\ AnsweredThree(2)

\* Whether a value fits one of the shapes a tool may return.
FitsContent(c) == c.js = "content" /\ c.type \in ContentTypes
Fits(value) ==
    \/ value.js = "string"
    \/ FitsContent(value)
    \/ value.js = "result" /\ \A i \in 1..Len(value.content) : FitsContent(value.content[i])

\* The handler of request r got as far as executing the tool.
Executed(r) == IsCall(r) /\ exec[r].st # "none"
\* The tool threw, or returned a value that does not normalize, before any deadline.
Raised(r) ==
    /\ Executed(r) /\ ~exec[r].afterDeadline
    /\ \/ exec[r].st = "threw"
       \/ exec[r].st = "returned" /\ ~Fits(exec[r].outcome.value)
RaisedText(r) ==
    IF exec[r].st = "threw"
    THEN IF exec[r].outcome.error.name = "UserError"
         THEN exec[r].outcome.error.message
         ELSE "Error: " \o exec[r].outcome.error.name \o ": " \o exec[r].outcome.error.message
    ELSE IF exec[r].outcome.value.js = "content"
         THEN "Error: ZodError: invalid_union_discriminator"
         ELSE "Error: ZodError: invalid_type"

\* C3: once lookup and validation have succeeded, the call is never answered with a
\* protocol error: an exception raised by the tool or by the normalization of its
\* result gives a result flagged isError with the UserError's message, or "Error:
\* <details>" for any other exception, and later requests are still answered.
C3_ContentError ==
    \A r \in Received :
        /\ (Executed(r) /\ Done(r)) =>
              /\ Len(ResponsesOf(r)) = 1
              /\ ResponsesOf(r)[1].id = r
              /\ ResponsesOf(r)[1].payload.kind = "result"
        /\ Raised(r) =>
              /\ Done(r)
              /\ ResponsesOf(r) = << Response(r, Result(<< Text(RaisedText(r)) >>, TRUE)) >>
        /\ \A q \in Received :
              (q < r /\ Raised(q) /\ ValidAdd(r) /\ Done(r)) => AnsweredThree(r)

C3_Witness ==
    /\ Len(request) = 2
    /\ Raised(1) /\ exec[1].st = "threw" /\ exec[1].outcome.error.name = "Error"
    /\ responses = << 1, 2 >>
    /\ ValidAdd(2) /\ AnsweredThree(2)

\* C4: a call naming a tool that is not registered is answered with the protocol
\* error MethodNotFound, whatever its arguments and whatever preceded it, and no
\* execute function is invoked for it.
C4_UnknownTool ==
    \A r \in Received :
        (IsCall(r) /\ request[r].name \notin ToolNames) =>
            /\ exec[r] = NoExec /\ timer[r] = "none"
            /\ Len(sent[r]) = 1
            /\ sent[r][1].method = "response" /\ sent[r][1].id = r
            /\ sent[r][1].payload.kind = "error"
            /\ sent[r][1].payload.code = "MethodNotFound"

C4_Witness ==
    /\ Len(request) = 2
    /\ Executed(1) /\ Done(1)
    /\ IsCall(2) /\ request[2].name = "unknown" /\ request[2].arguments = "invalid"
    /\ responses = << 1, 2 >>

ProgressSent(r) == SelectSeq(sent[r], IsProgress)
ReportsMade(r) == SelectSeq(CallsMade(r), IsReport)
\* The progress notifications the reportProgress calls made so far stand for.
ExpectedProgress(r) ==
    [i \in 1..Len(ReportsMade(r)) |->
        [method |-> "notifications/progress", progress |-> ReportsMade(r)[i].progress,
         total |-> ReportsMade(r)[i].total, progressToken |-> request[r].progressToken]]

\* A progress notification of request r was written after its response.
ProgressAfterResponse(r) ==
    \E i, j \in 1..Len(sent[r]) : i < j /\ IsResponse(sent[r][i]) /\ IsProgress(sent[r][j])
\* The tool settled before any deadline fired.
SettledInTime(r) == exec[r].st \in {"returned", "threw"} /\ ~exec[r].afterDeadline

\* C8 as stated: the N reportProgress calls of a tool give exactly N progress
\* notifications with the values passed and the request's token, all of them before the
\* single response of the request.
C8_AllProgressBeforeResponse ==
    \A r \in Received :
        (Executed(r) /\ connected) =>
            /\ ProgressSent(r) = ExpectedProgress(r)
            /\ Len(ResponsesOf(r)) <= 1
            /\ ~ProgressAfterResponse(r)

\* C8 amended: the N reportProgress calls of a tool give exactly N progress
\* notifications with the values passed and the request's token, and the request gets
\* at most one response; a notification follows the response only when the response is
\* the timeout error of a tool that went on reporting after its deadline, and a tool
\* that settles in time has all its notifications before the response.
C8_Progress ==
    \A r \in Received :
        (Executed(r) /\ connected) =>
            /\ ProgressSent(r) = ExpectedProgress(r)
            /\ Len(ResponsesOf(r)) <= 1
            /\ ProgressAfterResponse(r) =>
                  /\ RunsLongerThanTimeout(r)
                  /\ ResponsesOf(r) = << Response(r, Result(<< Text(TimedOutText(r)) >>, TRUE)) >>
            /\ SettledInTime(r) =>
                  /\ Len(ResponsesOf(r)) = 1
                  /\ IsResponse(sent[r][Len(sent[r])])

C8_Witness ==
    /\ Len(request) = 2 /\ IsCall(1) /\ IsCall(2)
    /\ request[1].name = "noisy" /\ request[1].progressToken = "token"
    /\ SettledInTime(1) /\ Len(ProgressSent(1)) = 2 /\ ProgressSent(1)[2].progress = 5
    /\ request[2].name = "slow" /\ request[2].progressToken = "token"
    /\ ProgressAfterResponse(2) /\ exec[2].st = "returned"

LogsSent(r) == SelectSeq(sent[r], IsLogging)
LogsMade(r) == SelectSeq(CallsMade(r), IsLog)
ExpectedLevel(method) == IF method = "warn" THEN "warning" ELSE method

\* C9: within a tool call every log.debug/error/info/warn call gives exactly one
\* logging notification with the method's level ("warning" for warn) and the message
\* given, in the order of the calls, whatever the session's logging level is.
C9_Logging ==
    \A r \in Received :
        (Executed(r) /\ connected) =>
            LogsSent(r) = [i \in 1..Len(LogsMade(r)) |->
                              [method |-> "notifications/message",
                               level |-> ExpectedLevel(LogsMade(r)[i].method),
                               message |-> LogsMade(r)[i].message]]

C9_Witness ==
    /\ loggingLevel = "info"
    /\ \A r \in Received : IsCall(r)
    /\ Len(request) = 2 /\ request[1].name = "noisy" /\ Done(1)
    /\ Len(LogsSent(1)) = 4
    /\ LogsSent(1)[1].level = "debug" /\ LogsSent(1)[4].level = "warning"

SetLevelRequests == { r \in Received : request[r].method = "logging/setLevel" }
LastSetLevel == CHOOSE r \in SetLevelRequests : \A q \in SetLevelRequests : q <= r

NextTool ==
    \/ \E call \in Calls : CallTool(call)
    \/ \E level \in RequestedLevels : SetLevel(level)
    \/ \E r \in ReqIds : ValidateArguments(r)
    \/ \E r \in ReqIds : ToolStep(r)
    \/ \E r \in ReqIds : \E outcome \in SettleOutcomes(r) : ToolSettle(r, outcome)
    \/ \E r \in ReqIds : TimerFire(r)

SpecTool == Init /\ [][NextTool]_vars

(***************************************************************************)
(* Properties of the facade and its listeners (SpecFacade)                 *)
(***************************************************************************)

\* How many events of a type the facade has emitted for session s.
Count(type, s) == Cardinality({i \in 1..Len(events) : events[i] = Event(type, s)})

\* The sessions created so far.
Created_Sessions == {conn[c].session : c \in {d \in ConnIds : conn[d].session # 0}}

InSessions(s) == \E i \in 1..Len(sessions) : sessions[i] = s

\* The connection of session s has closed and its teardown has run to the end.
TornDown(s) == conn[s].closing = "done" /\ conn[s].deleting # "awaiting"

\* C5: the facade's session list holds exactly the sessions whose client connection is
\* open: a session whose connection has closed and been torn down is no longer listed.
C5_SessionsAreOpen ==
    \A s \in Created_Sessions : TornDown(s) => ~InSessions(s)

\* A connection whose createServer threw has no session, is not in the table, is not
\* mentioned by the session list or the events, and was answered with the thrown
\* Response's status (500 for any other error).
RejectedCleanly(c) ==
    /\ conn[c].session = 0
    /\ c \notin activeTransports
    /\ ~InSessions(c)
    /\ Count("connect", c) = 0 /\ Count("disconnect", c) = 0
    /\ conn[c].status = IF conn[c].thrown.kind = "Response"
                        THEN conn[c].thrown.status ELSE 500

\* The step in which createServer throws for some connection.
Rejection == \E c \in ConnIds : conn[c].thrown.kind = "none" /\ conn'[c].thrown.kind # "none"

\* C6: when the authenticator throws, no session is created and no "connect" is
\* emitted for the connection, the step leaves the session list (and the events and the
\* table) unchanged, and the response carries the thrown Response's status - on the SSE
\* and on the HTTP-stream listener alike.
C6_Unauthorized ==
    /\ [](\A c \in ConnIds : conn[c].thrown.kind # "none" => RejectedCleanly(c))
    /\ [][Rejection => /\ sessions' = sessions
                       /\ events' = events
                       /\ activeTransports' = activeTransports]_vars

\* An SSE connection is rejected with 401 while an earlier session stays listed.
C6_Witness ==
    /\ transportType \in {"sse", "httpStream"}
    /\ conn[1].stage = "open"
    /\ conn[2].thrown = ThrownResponse(401)
    /\ conn[2].status = 401
    /\ sessions = << 1 >>
    /\ events = << Event("connect", 1) >>

\* C7: for every connection the facade has announced with "connect" it emits that
\* event once and "disconnect" at most once, and once the connection has closed and
\* been torn down - by the peer, by DELETE or by the listener's shutdown - it has
\* emitted exactly one "disconnect" for the session.
C7_ExactlyOnce ==
    \A s \in Created_Sessions :
        Count("connect", s) >= 1 =>
            /\ Count("connect", s) = 1
            /\ Count("disconnect", s) <= 1
            /\ TornDown(s) => Count("disconnect", s) = 1

NextFacade ==
    \/ \E type \in TransportTypes : Start(type)
    \/ \E c \in ConnIds : Open(c)
    \/ \E c \in ConnIds : \E outcome \in CreateServerOutcomes : SseCreateServer(c, outcome)
    \/ \E c \in ConnIds : SseConnect(c)
    \/ \E c \in ConnIds : SsePeerClose(c)
    \/ \E c \in ConnIds : SseClosed(c)
    \/ \E c \in ConnIds : \E outcome \in CreateServerOutcomes : HttpCreateServer(c, outcome)
    \/ \E c \in ConnIds : HttpDelete(c)
    \/ \E c \in ConnIds : HttpClosed(c)
    \/ \E c \in ConnIds : HttpDeleted(c)
    \/ Stop

SpecFacade == Init /\ [][NextFacade]_vars

(***************************************************************************)
(* FastMCPSession.setupResourceHandlers / setupPromptHandlers: the         *)
(* ReadResourceRequestSchema and GetPromptRequestSchema handlers           *)
(***************************************************************************)

\* The registry: direct resources, resource templates and prompts, in the order added.
resources == <<
    [uri |-> "file:///logs/app.log", name |-> "Application Logs", mimeType |-> "text/plain"],
    [uri |-> "file:///logs/all.log", name |-> "All Logs",         mimeType |-> "text/plain"] >>

resourceTemplates == <<
    [uriTemplate |-> "file:///logs/{name}.log", name |-> "Log By Name", mimeType |-> "text/plain"],
    [uriTemplate |-> "file:///logs/{file}",     name |-> "Log File",    mimeType |-> "text/x-log"] >>

prompts == <<
    [name |-> "git-commit", description |-> "Generate a Git commit message",
     arguments |-> << [name |-> "changes", required |-> TRUE],
                      [name |-> "style",   required |-> FALSE] >>],
    [name |-> "greeting", description |-> "Say hello", arguments |-> << >>],
    [name |-> "countryPoem", description |-> "Writes a poem about a country",
     arguments |-> << [name |-> "name", required |-> TRUE, complete |-> "countries"],
                      [name |-> "language", required |-> FALSE,
                       enum |-> << "German", "French", "Italian" >>],
                      [name |-> "form", required |-> FALSE, complete |-> "countries",
                       enum |-> << "haiku", "sonnet" >>] >>] >>

\* The URIs clients read: a direct resource that every template matches too, a direct
\* resource, a URI both templates match, one only the second matches, one nothing
\* matches.
ReadUris == {"file:///logs/app.log", "file:///logs/all.log", "file:///logs/db.log",
             "file:///logs/readme", "file:///docs/readme"}

\* request.params.arguments of a prompt get; NoArguments stands for `undefined`.
NoArguments == [a \in {} |-> ""]

PromptGets ==
    {[name |-> "git-commit", arguments |-> [changes |-> "foo"]],
     [name |-> "git-commit", arguments |-> [style |-> "short"]],
     [name |-> "git-commit", arguments |-> NoArguments],
     [name |-> "greeting",   arguments |-> NoArguments],
     [name |-> "unknown",    arguments |-> [changes |-> "foo"]]}

\* What a resource's load() resolves to: one object or an array of objects.
One(entry) == [array |-> FALSE, entry |-> entry]
Many(entries) == [array |-> TRUE, entries |-> entries]

\* How the load() of direct resource i may settle.
ResourceOutcomes(i) ==
    IF i = 1
    THEN { Returns(One([text |-> "Example log content"])),
           Returns(One([text |-> "{}", mimeType |-> "application/json"])),
           Throws(Err("Error", "disk failure")) }
    ELSE { Returns(Many(<< [text |-> "a"], [text |-> "b"] >>)),
           Returns(Many(<< [text |-> "a"], [blob |-> "Yg==", uri |-> "file:///logs/b.bin"],
                           [text |-> "c"] >>)),
           Throws(Err("Error", "disk failure")) }

\* How the load(args) of resource template i may settle.
TemplateOutcomes(i) ==
    { Returns([text |-> "Example log content"]), Throws(Err("Error", "no such log")) }

\* The string the load(args) of a prompt produces.
PromptText(name, args) ==
    IF name = "git-commit"
    THEN "Generate a concise but descriptive commit message for these changes:\n\n"
         \o args.changes
    ELSE "Hello"

\* How the load(args) of prompt i may settle.
PromptOutcomes(i, args) ==
    { Returns(PromptText(prompts[i].name, args)), Throws(Err("Error", "template missing")) }

\* The position of the first occurrence of character ch in string s (0: none).
IndexOf(s, ch) ==
    IF \E i \in 1..Len(s) : SubSeq(s, i, i) = ch
    THEN CHOOSE i \in 1..Len(s) : SubSeq(s, i, i) = ch /\ \A j \in 1..(i - 1) : SubSeq(s, j, j) # ch
    ELSE 0

\* parseURITemplate(t) for a template with one {placeholder}: the literal text before
\* it, its name and the literal text after it.
ParseURITemplate(t) ==
    LET i == IndexOf(t, "{")
        j == IndexOf(t, "}")
    IN  [prefix |-> SubSeq(t, 1, i - 1), name |-> SubSeq(t, i + 1, j - 1),
         suffix |-> SubSeq(t, j + 1, Len(t))]

NoMatch == [matched |-> FALSE]

\* uriTemplate.fromUri(uri): the placeholder's value when the URI starts with the
\* template's prefix and ends with its suffix, with something in between.
FromUri(uriTemplate, uri) ==
    LET p == Len(uriTemplate.prefix)
        q == Len(uriTemplate.suffix)
    IN  IF /\ Len(uri) > p + q
           /\ SubSeq(uri, 1, p) = uriTemplate.prefix
           /\ SubSeq(uri, Len(uri) - q + 1, Len(uri)) = uriTemplate.suffix
        THEN [matched |-> TRUE, name |-> uriTemplate.name,
              value |-> SubSeq(uri, p + 1, Len(uri) - q)]
        ELSE NoMatch

\* uriTemplate.fill(match)
Fill(uriTemplate, match) == uriTemplate.prefix \o match.value \o uriTemplate.suffix

\* The object a template's load receives: {[placeholder]: value}.
MatchArgs(match) == match.name :> match.value

\* resources.find((resource) => resource.uri === request.params.uri)  (0: undefined)
FindResource(uri) ==
    IF \E i \in 1..Len(resources) : resources[i].uri = uri
    THEN CHOOSE i \in 1..Len(resources) :
             resources[i].uri = uri /\ \A j \in 1..(i - 1) : resources[j].uri # uri
    ELSE 0

\* The last template whose fromUri matches.
FindTemplateLast(uri) ==
    LET Matches(i) == FromUri(ParseURITemplate(resourceTemplates[i].uriTemplate), uri).matched
    IN  IF \E i \in 1..Len(resourceTemplates) : Matches(i)
        THEN CHOOSE i \in 1..Len(resourceTemplates) :
                 Matches(i) /\ \A j \in (i + 1)..Len(resourceTemplates) : ~Matches(j)
        ELSE 0

\* for (const resourceTemplate of this.#resourceTemplates): the first template whose
\* fromUri matches (0: the loop ends without a match).
FindTemplate(uri) ==
    LET Matches(i) == FromUri(ParseURITemplate(resourceTemplates[i].uriTemplate), uri).matched
    IN  IF \E i \in 1..Len(resourceTemplates) : Matches(i)
        THEN CHOOSE i \in 1..Len(resourceTemplates) :
                 Matches(i) /\ \A j \in 1..(i - 1) : ~Matches(j)
        ELSE 0

\* prompts.find((prompt) => prompt.name === request.params.name)  (0: undefined)
FindPrompt(name) ==
    IF \E i \in 1..Len(prompts) : prompts[i].name = name
    THEN CHOOSE i \in 1..Len(prompts) :
             prompts[i].name = name /\ \A j \in 1..(i - 1) : prompts[j].name # name
    ELSE 0

\* Responses of the two handlers.
ReadResult(contents) == [kind |-> "result", contents |-> contents]

PromptResult(description, text) ==
    [kind |-> "result", description |-> description,
     messages |-> << [role |-> "user", content |-> Text(text)] >>]

\* new McpError(code, message, data)
ProtocolErrorWithData(code, message, data) ==
    [kind |-> "error", code |-> code, message |-> message, data |-> data]

UnknownResource(uri) == ProtocolError("MethodNotFound", "Unknown resource: " \o uri)

UnknownPrompt(name) == ProtocolError("MethodNotFound", "Unknown prompt: " \o name)

MissingArgument(name) == ProtocolError("InvalidRequest", "Missing required argument: " \o name)

\* { mimeType, name, uri, ...result }: the loaded entry's own fields win.
Item(mimeType, name, uri, result) ==
    result @@ [mimeType |-> mimeType, name |-> name, uri |-> uri]

\* The direct resource's fields always win over the loaded entry's.
DirectItemNoOverride(resource, result) ==
    [mimeType |-> resource.mimeType, name |-> resource.name, uri |-> resource.uri] @@ result

DirectItem(resource, result) == Item(resource.mimeType, resource.name, resource.uri, result)

\* catch (error) around resource.load()
LoadFailed(resource, error) ==
    ProtocolErrorWithData("InternalError", "Error reading resource: " \o ErrString(error),
                          [uri |-> resource.uri])

\* What the handler answers once a direct resource's load() has settled.
DirectRead(resource, outcome) ==
    IF outcome.threw
    THEN LoadFailed(resource, outcome.error)
    ELSE IF outcome.value.array
         THEN ReadResult([k \in 1..Len(outcome.value.entries) |->
                             DirectItem(resource, outcome.value.entries[k])])
         ELSE ReadResult(<< DirectItem(resource, outcome.value.entry) >>)

\* An error thrown out of a request handler that is no McpError: the protocol layer
\* answers with InternalError and the error's message, and no data.
Unhandled(error) == ProtocolError("InternalError", error.message)

\* What the handler answers once a matched template's load(match) has settled; the
\* await is not inside a try block.
TemplateRead(resourceTemplate, uri, outcome) ==
    IF outcome.threw
    THEN Unhandled(outcome.error)
    ELSE ReadResult(<< Item(resourceTemplate.mimeType, resourceTemplate.name, uri,
                            outcome.value) >>)

\* The required arguments of a prompt that args lacks, in declaration order.
MissingRequired(prompt, args) ==
    SelectSeq(prompt.arguments, LAMBDA arg : arg.required /\ arg.name \notin DOMAIN args)

\* A load failure of a prompt reported as an invalid request.
PromptLoadFailedAsInvalid(error) ==
    ProtocolError("InvalidRequest", "Error loading prompt: " \o ErrString(error))

\* catch (error) around prompt.load(args)
PromptLoadFailed(error) ==
    ProtocolError("InternalError", "Error loading prompt: " \o ErrString(error))

\* What the handler answers once a prompt's load(args) has settled.
PromptGot(prompt, outcome) ==
    IF outcome.threw
    THEN PromptLoadFailed(outcome.error)
    ELSE PromptResult(prompt.description, outcome.value)

\* A load() call: for which request, of which registry entry, with which arguments,
\* and how it settled.
Load(r, kind, index, args) ==
    [request |-> r, kind |-> kind, index |-> index, args |-> args,
     settled |-> FALSE, outcome |-> Pending]

\* The handler of request r calls a load function and awaits it.
AwaitLoad(r, kind, index, args) ==
    /\ loads' = Append(loads, Load(r, kind, index, args))
    /\ handler' = [handler EXCEPT ![r] = "load"]
    /\ UNCHANGED <<sent, responses>>

\* A resources/read request arrives: direct resources by exact URI, then the templates.
ReadResource(uri) ==
    /\ connected
    /\ Len(request) < NumReq
    /\ LET r == Len(request) + 1
           i == FindResource(uri)
           t == FindTemplate(uri)
       IN  /\ request' = Append(request, [method |-> "resources/read", uri |-> uri])
           /\ IF i # 0
              THEN AwaitLoad(r, "resource", i, NoArguments)
              ELSE IF t # 0
                   THEN AwaitLoad(r, "template", t,
                            MatchArgs(FromUri(ParseURITemplate(resourceTemplates[t].uriTemplate), uri)))
                   ELSE Reply(r, UnknownResource(uri)) /\ UNCHANGED loads
    /\ UNCHANGED <<loggingLevel, connected, exec, timer>>
    /\ UNCHANGED exceptRead

\* The load() call request r awaits.
LoadOf(r) == CHOOSE l \in {loads[k] : k \in 1..Len(loads)} : l.request = r

\* The awaited load() of request r settles.
Settle(r, outcome) ==
    loads' = [k \in 1..Len(loads) |->
                 IF loads[k].request = r
                 THEN [loads[k] EXCEPT !.settled = TRUE, !.outcome = outcome]
                 ELSE loads[k]]

Loading(r, kind) ==
    /\ r \in 1..Len(request)
    /\ handler[r] = "load"
    /\ LoadOf(r).kind = kind

ResourceSettles(r) ==
    IF Loading(r, "resource") THEN ResourceOutcomes(LoadOf(r).index) ELSE {}

TemplateSettles(r) ==
    IF Loading(r, "template") THEN TemplateOutcomes(LoadOf(r).index) ELSE {}

PromptSettles(r) ==
    IF Loading(r, "prompt") THEN PromptOutcomes(LoadOf(r).index, LoadOf(r).args) ELSE {}

\* resource.load() settles.
ResourceLoaded(r, outcome) ==
    /\ Loading(r, "resource")
    /\ Reply(r, DirectRead(resources[LoadOf(r).index], outcome))
    /\ Settle(r, outcome)
    /\ UNCHANGED <<loggingLevel, connected, request, exec, timer>>
    /\ UNCHANGED exceptRead

\* resourceTemplate.load(match) settles.
TemplateLoaded(r, outcome) ==
    /\ Loading(r, "template")
    /\ LET t == resourceTemplates[LoadOf(r).index]
           uriTemplate == ParseURITemplate(t.uriTemplate)
       IN  Reply(r, TemplateRead(t, Fill(uriTemplate, FromUri(uriTemplate, request[r].uri)),
                                 outcome))
    /\ Settle(r, outcome)
    /\ UNCHANGED <<loggingLevel, connected, request, exec, timer>>
    /\ UNCHANGED exceptRead

\* A prompts/get request arrives: lookup, required arguments, load.
GetPrompt(get) ==
    /\ connected
    /\ Len(request) < NumReq
    /\ LET r == Len(request) + 1
           i == FindPrompt(get.name)
       IN  /\ request' = Append(request, [method |-> "prompts/get", name |-> get.name,
                                          arguments |-> get.arguments])
           /\ IF i = 0
              THEN Reply(r, UnknownPrompt(get.name)) /\ UNCHANGED loads
              ELSE IF MissingRequired(prompts[i], get.arguments) # << >>
                   THEN /\ Reply(r, MissingArgument(
                                      MissingRequired(prompts[i], get.arguments)[1].name))
                        /\ UNCHANGED loads
                   ELSE AwaitLoad(r, "prompt", i, get.arguments)
    /\ UNCHANGED <<loggingLevel, connected, exec, timer>>
    /\ UNCHANGED exceptRead

\* prompt.load(args) settles.
PromptLoaded(r, outcome) ==
    /\ Loading(r, "prompt")
    /\ Reply(r, PromptGot(prompts[LoadOf(r).index], outcome))
    /\ Settle(r, outcome)
    /\ UNCHANGED <<loggingLevel, connected, request, exec, timer>>
    /\ UNCHANGED exceptRead

NextRead ==
    \/ \E uri \in ReadUris : ReadResource(uri)
    \/ \E r \in ReqIds : \E outcome \in ResourceSettles(r) : ResourceLoaded(r, outcome)
    \/ \E r \in ReqIds : \E outcome \in TemplateSettles(r) : TemplateLoaded(r, outcome)
    \/ \E get \in PromptGets : GetPrompt(get)
    \/ \E r \in ReqIds : \E outcome \in PromptSettles(r) : PromptLoaded(r, outcome)

SpecRead == Init /\ [][NextRead]_vars

(***************************************************************************)
(* Properties of the resource and prompt handlers (SpecRead)               *)
(***************************************************************************)
IsRead(r) == r \in Received /\ request[r].method = "resources/read"
IsGet(r) == r \in Received /\ request[r].method = "prompts/get"

\* The load() calls made for request r.
LoadsFor(r) == SelectSeq(loads, LAMBDA l : l.request = r)

\* The payload of the one response written for request r.
Answer(r) == ResponsesOf(r)[1].payload

AnsweredOnce(r) == Done(r) /\ Len(sent[r]) = 1 /\ Len(ResponsesOf(r)) = 1

\* Request r is a read of the direct resource with index i.
ReadsDirect(r, i) == IsRead(r) /\ resources[i].uri = request[r].uri

\* The loaded entries of a returned load(), as a list.
Entries(value) == IF value.array THEN value.entries ELSE << value.entry >>

Described == {"mimeType", "name", "uri"}

\* contents item `item` is loaded entry `entry` completed from direct resource `res`.
Completes(item, entry, res) ==
    /\ DOMAIN item = DOMAIN entry \cup Described
    /\ \A f \in DOMAIN entry : item[f] = entry[f]
    /\ \A f \in Described \ DOMAIN entry : item[f] = res[f]

\* C11: a read of a direct resource whose loader returned is answered with a contents
\* list of one item for one object and of N items, in loader order, for a list of N
\* objects; every item has the loaded entry's fields plus the resource's name, URI and
\* MIME type for each of these the entry does not set itself.
C11_DirectRead ==
    \A r \in Received : \A i \in 1..Len(resources) :
        (ReadsDirect(r, i) /\ Done(r) /\ ~LoadOf(r).outcome.threw) =>
            LET loaded == LoadOf(r).outcome.value
                entries == Entries(loaded)
            IN  /\ AnsweredOnce(r)
                /\ Answer(r).kind = "result"
                /\ Len(Answer(r).contents) = IF loaded.array THEN Len(loaded.entries) ELSE 1
                /\ \A k \in 1..Len(entries) :
                       Completes(Answer(r).contents[k], entries[k], resources[i])

\* A list of three entries, the second with its own URI, and a single object with its
\* own MIME type have been read.
C11_Witness ==
    /\ Len(request) = 2 /\ Done(1) /\ Done(2)
    /\ ReadsDirect(1, 2) /\ ReadsDirect(2, 1)
    /\ Len(Answer(1).contents) = 3
    /\ Answer(1).contents[2].uri = "file:///logs/b.bin"
    /\ Answer(1).contents[3] = [text |-> "c", name |-> "All Logs", mimeType |-> "text/plain",
                                uri |-> "file:///logs/all.log"]
    /\ Answer(2).contents = << [text |-> "{}", name |-> "Application Logs",
                                mimeType |-> "application/json",
                                uri |-> "file:///logs/app.log"] >>

\* Which loader a read of each URI must reach, and with what: written out by hand from
\* the registry.
NoLoader == [kind |-> "none"]

ExpectedLoader(uri) ==
    CASE uri = "file:///logs/app.log" -> [kind |-> "resource", index |-> 1, args |-> NoArguments]
      [] uri = "file:///logs/all.log" -> [kind |-> "resource", index |-> 2, args |-> NoArguments]
      [] uri = "file:///logs/db.log"  -> [kind |-> "template", index |-> 1, args |-> [name |-> "db"]]
      [] uri = "file:///logs/readme"  -> [kind |-> "template", index |-> 2, args |-> [file |-> "readme"]]
      [] OTHER                        -> NoLoader

\* C12: a read takes the direct resource with exactly the requested URI; only without
\* one it takes the first template, in registration order, whose pattern matches and
\* loads it with the extracted placeholder values; when nothing matches it is answered
\* with MethodNotFound and no loader is invoked.  The pattern file:///logs/{name}.log
\* against file:///logs/app.log gives {name: "app"}.
C12_Resolution ==
    /\ MatchArgs(FromUri(ParseURITemplate("file:///logs/{name}.log"), "file:///logs/app.log"))
           = [name |-> "app"]
    /\ \A r \in Received :
           IsRead(r) =>
               LET expected == ExpectedLoader(request[r].uri)
               IN  IF expected = NoLoader
                   THEN /\ LoadsFor(r) = << >>
                        /\ AnsweredOnce(r)
                        /\ Answer(r).kind = "error" /\ Answer(r).code = "MethodNotFound"
                   ELSE /\ Len(LoadsFor(r)) = 1
                        /\ LoadsFor(r)[1].kind = expected.kind
                        /\ LoadsFor(r)[1].index = expected.index
                        /\ LoadsFor(r)[1].args = expected.args

\* A URI that both templates match was read through the first, and a URI nothing
\* matches was refused.
C12_Witness ==
    /\ Len(request) = 2 /\ Done(1) /\ Done(2)
    /\ IsRead(1) /\ IsRead(2)
    /\ request[1].uri = "file:///logs/db.log" /\ request[2].uri = "file:///docs/readme"
    /\ Len(loads) = 1 /\ loads[1].kind = "template" /\ loads[1].index = 1
    /\ Answer(1).kind = "result" /\ Answer(1).contents[1].uri = "file:///logs/db.log"
    /\ Answer(2) = UnknownResource("file:///docs/readme")

\* C13: whenever the load function selected for a read raises - of a direct resource
\* or of a matched template - the read is answered with the protocol error
\* InternalError carrying the requested URI.
C13_LoadFailureCarriesUri ==
    \A r \in Received :
        (IsRead(r) /\ Done(r) /\ LoadsFor(r) # << >> /\ LoadOf(r).outcome.threw) =>
            /\ AnsweredOnce(r)
            /\ Answer(r).kind = "error" /\ Answer(r).code = "InternalError"
            /\ "data" \in DOMAIN Answer(r)
            /\ Answer(r).data = [uri |-> request[r].uri]

\* The outcome a prompt get must have, decided from the registry by hand.
GetExpected(r) ==
    LET known == {prompts[i].name : i \in 1..Len(prompts)}
        required == IF request[r].name = "git-commit" THEN {"changes"} ELSE {}
    IN  IF request[r].name \notin known THEN "MethodNotFound"
        ELSE IF ~(required \subseteq DOMAIN request[r].arguments) THEN "InvalidRequest"
        ELSE "load"

\* C14: a prompt get is answered MethodNotFound when the name is not registered; else
\* InvalidRequest, without load being invoked, when a required argument is absent;
\* else load is invoked once with the arguments and the answer is InternalError when it
\* raises and otherwise exactly one user-role text message holding the loaded string.
C14_PromptGet ==
    \A r \in Received :
        IsGet(r) =>
            IF GetExpected(r) # "load"
            THEN /\ LoadsFor(r) = << >>
                 /\ AnsweredOnce(r)
                 /\ Answer(r).kind = "error" /\ Answer(r).code = GetExpected(r)
            ELSE /\ Len(LoadsFor(r)) = 1
                 /\ LoadsFor(r)[1].kind = "prompt"
                 /\ prompts[LoadsFor(r)[1].index].name = request[r].name
                 /\ LoadsFor(r)[1].args = request[r].arguments
                 /\ Done(r) =>
                       /\ AnsweredOnce(r)
                       /\ IF LoadOf(r).outcome.threw
                          THEN Answer(r).kind = "error" /\ Answer(r).code = "InternalError"
                          ELSE /\ Answer(r).kind = "result"
                               /\ Answer(r).messages =
                                      << [role |-> "user",
                                          content |-> [type |-> "text",
                                                       text |-> LoadOf(r).outcome.value]] >>

\* A get lacking the required argument was refused and a complete one was answered
\* with the text built from its argument.
C14_Witness ==
    /\ Len(request) = 2 /\ Done(1) /\ Done(2)
    /\ IsGet(1) /\ request[1].arguments = [style |-> "short"]
    /\ Answer(1) = MissingArgument("changes")
    /\ IsGet(2) /\ request[2].arguments = [changes |-> "foo"]
    /\ Answer(2).kind = "result"
    /\ Answer(2).messages[1].content.text =
           "Generate a concise but descriptive commit message for these changes:\n\nfoo"
    /\ Len(loads) = 1

(***************************************************************************)
(* Properties of connect(), close() and the ping interval                  *)
(* (SpecConnect, SpecHandshake)                                            *)
(***************************************************************************)

\* The connect() calls that did not fail at once.
Admitted == {k \in 1..Len(connects) : connects[k].outcome # "UnexpectedStateError"}

\* A step in which connect() is called.
ConnectCalled == Len(connects') = Len(connects) + 1

\* C15: connect(transport) on a session that has a transport bound fails with the
\* state error and leaves the binding, the client capabilities, the roots and the ping
\* interval as they were; the bound transport is always that of the one call admitted.
C15_AlreadyConnected ==
    /\ [](transport # NoTransport =>
             /\ Cardinality(Admitted) = 1
             /\ \A k \in Admitted : connects[k].transport = transport)
    /\ [][(ConnectCalled /\ transport # NoTransport) =>
             /\ connects'[Len(connects')].outcome = "UnexpectedStateError"
             /\ UNCHANGED <<transport, connected, clientCapabilities, roots, pingInterval,
                            connecting>>]_vars

\* A second connect() has failed on a session whose first transport is still bound and
\* whose ping interval runs.
C15_Witness ==
    /\ Len(connects) = 2
    /\ connects[1].outcome = "ok"
    /\ connects[2].outcome = "UnexpectedStateError"
    /\ transport = connects[1].transport
    /\ clientCapabilities.known
    /\ pingInterval = "running"

\* connect() has been called and has not returned.
Handshaking == connecting.pc \in {"poll", "delay", "roots"}

\* C16: the handshake asks for the client's capabilities at most 10 times; it goes on
\* asking only while it has none; connect() always returns; and when no attempt
\* returned capabilities it returns successfully after the 10th with clientCapabilities
\* null.
C16_Handshake ==
    /\ [](connecting.polls <= 10)
    /\ [](connecting.pc \in {"poll", "delay"} => ~clientCapabilities.known)
    /\ []((connecting.pc = "done" /\ ~clientCapabilities.known) =>
             /\ connecting.polls = 10
             /\ connects[1].outcome = "ok"
             /\ clientCapabilities = NoCapabilities)
    /\ (Handshaking ~> connecting.pc = "done")

\* connect() has returned after ten fruitless attempts.
C16_Witness ==
    /\ connecting.pc = "done"
    /\ connecting.polls = 10
    /\ clientCapabilities = NoCapabilities
    /\ connects = << [transport |-> transport, outcome |-> "ok"] >>

\* The ping policy in force for the transport given to connect(): the explicit setting,
\* else on for sse and httpStream and off otherwise.
EffectivePing ==
    CASE options.ping = "true"  -> TRUE
      [] options.ping = "false" -> FALSE
      [] OTHER -> connecting.transport.type \in {"sse", "httpStream"}

\* C17: the ping interval runs only if the client's capabilities are known and the
\* effective ping policy is enabled, and once connect() has returned on a session not
\* closed it runs exactly then.
C17_PingPolicy ==
    /\ pingInterval = "running" => clientCapabilities.known /\ EffectivePing
    /\ (connecting.pc = "done" /\ ~closed) =>
           (pingInterval = "running" <=> clientCapabilities.known /\ EffectivePing)

\* An explicit false has kept the interval off on an sse transport.
C17_Witness ==
    /\ connecting.pc = "done" /\ ~closed
    /\ options.ping = "false"
    /\ transport.type = "sse"
    /\ clientCapabilities.known
    /\ pingInterval = "null"

\* Some probe so far failed or went unanswered.
ProbeMissed == \E k \in 1..Len(probes) : probes[k].outcome \in {"failed", "unanswered"}

\* C18: a probe that fails or is never answered changes neither the transport binding
\* nor the interval: as long as close() is not called the session stays connected and
\* the interval keeps running.
C18_ProbeNotFatal ==
    /\ []((ProbeMissed /\ ~closed) =>
             connected /\ transport # NoTransport /\ pingInterval = "running")
    /\ [][(Len(probes') = Len(probes) + 1) =>
             /\ UNCHANGED <<transport, connected, closed>>
             /\ pingInterval' = "running"]_vars

\* After an unanswered probe a request was answered and another probe was sent.
C18_Witness ==
    /\ ~closed
    /\ probes = << [sent |-> TRUE, outcome |-> "unanswered"],
                   [sent |-> TRUE, outcome |-> "answered"] >>
    /\ Len(request) >= 1 /\ Len(responses) = Len(request)

\* C19: once close() has been called the ping interval no longer runs.
C19_TimerCancelled == closed => pingInterval # "running"

\* C20: connect() fetches the roots only when the client's capabilities declare roots
\* and roots.enabled of the options is not false.
C20_RootsFetchGuard ==
    connecting.pc = "roots" => clientCapabilities.roots /\ options.roots # "false"

(***************************************************************************)
(* The roots/list_changed notification (SpecRoots)                         *)
(***************************************************************************)

\* A session in service over stdio whose client declares roots.listChanged, with any
\* options, after connect() has fetched the roots or failed to.
InitRoots ==
    /\ InitSession /\ InitFacade /\ InitRead /\ InitLater
    /\ options \in Options
    /\ transport = Transport(1, "stdio")
    /\ peerCapabilities = Capabilities(TRUE, TRUE)
    /\ clientCapabilities = Capabilities(TRUE, TRUE)
    /\ roots \in { << >>, << "Frontend Repository" >> }
    /\ pingInterval = IF GetPingConfig(Transport(1, "stdio")).enabled THEN "running" ELSE "null"
    /\ connecting = [pc |-> "done", attempt |-> 1, polls |-> 1,
                     transport |-> Transport(1, "stdio")]
    /\ connects = << [transport |-> Transport(1, "stdio"), outcome |-> "ok"] >>
    /\ probes = << >>
    /\ closed = FALSE

NextRoots ==
    \/ RootsListChanged
    \/ \E i \in 1..MaxNotifications : \E outcome \in ListRootsOutcomes(i) : RootsListed(i, outcome)
    \/ Close

SpecRoots == InitRoots /\ [][NextRoots]_vars

Notified == 1..Len(rootsFetches)

\* The listRoots() calls that came back with a list.
Fetched == {i \in Notified : rootsFetches[i].settled /\ ~rootsFetches[i].outcome.threw}

\* The listRoots() call of notification i settles in this step.
SettlesNow(i) == ~rootsFetches[i].settled /\ rootsFetches'[i].settled

\* Every notification makes the session fetch the roots, whatever its options.
C21_EveryNotificationFetches == \A i \in Notified : rootsFetches[i].fetch

\* C21: unless roots support was disabled in the options (then the notification is
\* ignored), each roots/list_changed notification makes the session fetch the roots
\* once; when the fetch succeeds #roots becomes exactly the fetched list and one
\* "rootsChanged" event carrying that list is emitted; when it fails, roots and events
\* stay as they are and the session is neither closed nor disconnected by it.
C21_RootsChanged ==
    /\ [](\A i \in Notified : rootsFetches[i].fetch = RootsHandlerInstalled)
    /\ [](Len(rootsEvents) = Cardinality(Fetched))
    /\ [][\A i \in Notified :
            SettlesNow(i) =>
                IF rootsFetches'[i].outcome.threw
                THEN UNCHANGED <<roots, rootsEvents, connected, closed>>
                ELSE /\ roots' = rootsFetches'[i].outcome.value
                     /\ rootsEvents' = Append(rootsEvents, rootsFetches'[i].outcome.value)
                     /\ UNCHANGED <<connected, closed>>]_vars

\* Two notifications: the fetch of one replaced a non-empty list by another, the
\* fetch of the other failed and the session is still connected.
C21_Witness ==
    /\ Len(rootsFetches) = 2
    /\ rootsFetches[1].settled /\ ~rootsFetches[1].outcome.threw
    /\ rootsFetches[2].settled /\ rootsFetches[2].outcome.threw
    /\ roots = << "Frontend Repository", "Backend Repository" >>
    /\ rootsEvents = << roots >>
    /\ connected

(***************************************************************************)
(* FastMCPSession.addPrompt and setupCompleteHandlers: completion/complete *)
(* (SpecComplete)                                                          *)
(***************************************************************************)

\* The completion/complete requests clients send.
CompleteRequests ==
    { [ref |-> [type |-> "ref/prompt", name |-> name],
       argument |-> [name |-> arg, value |-> value]] :
          name \in {"countryPoem"}, arg \in {"name", "language", "form", "other"},
          value \in {"Germ", "son"} }
      \cup
    { [ref |-> [type |-> "ref/prompt", name |-> name],
       argument |-> [name |-> arg, value |-> "sh"]] :
          name \in {"git-commit", "greeting", "unknown"}, arg \in {"changes", "style"} }
      \cup
    { [ref |-> [type |-> "ref/tool", name |-> "countryPoem"],
       argument |-> [name |-> "name", value |-> "Germ"]] }

\* The argument's own complete function (the one of the test suite).
Completer(value) == IF value = "Germ" THEN [values |-> << "Germany" >>] ELSE [values |-> << >>]

\* Whether string s contains string part.
Contains(s, part) ==
    \E i \in 1..(Len(s) - Len(part) + 1) : SubSeq(s, i, i + Len(part) - 1) = part

\* new Fuse(enum).search(value): the enumerated values that match, with their number.
FuseSearch(enum, value) ==
    LET hits == SelectSeq(enum, LAMBDA item : Contains(item, value))
    IN  [total |-> Len(hits), values |-> hits]

\* The arguments of a prompt that declare `complete`, and those that declare `enum`.
Completers(prompt) ==
    {prompt.arguments[k].name : k \in {j \in 1..Len(prompt.arguments) :
                                          "complete" \in DOMAIN prompt.arguments[j]}}

Enums(prompt) ==
    {prompt.arguments[k].name : k \in {j \in 1..Len(prompt.arguments) :
                                          "enum" \in DOMAIN prompt.arguments[j]}}

EnumOf(prompt, name) ==
    LET k == CHOOSE j \in 1..Len(prompt.arguments) :
                 prompt.arguments[j].name = name /\ "enum" \in DOMAIN prompt.arguments[j]
    IN  prompt.arguments[k].enum

\* prompt.complete(name, value) as addPrompt defines it for every prompt.
PromptComplete(prompt, name, value) ==
    IF name \in Completers(prompt) THEN Completer(value)
    ELSE IF name \in Enums(prompt) THEN FuseSearch(EnumOf(prompt, name), value)
    ELSE [values |-> << >>]

CompleteResult(completion) == [kind |-> "result", completion |-> completion]

UnexpectedStateError(message) == Err("UnexpectedStateError", message)

\* The CompleteRequestSchema handler.  `prompt.complete` is defined for every prompt of
\* #prompts, so the test for it never fails.
CompleteAnswer(c) ==
    IF c.ref.type = "ref/prompt"
    THEN LET i == FindPrompt(c.ref.name)
         IN  IF i = 0
             THEN Unhandled(UnexpectedStateError("Unknown prompt"))
             ELSE CompleteResult(PromptComplete(prompts[i], c.argument.name, c.argument.value))
    ELSE Unhandled(UnexpectedStateError("Unexpected completion request"))

\* A completion/complete request arrives and is answered.
Complete(c) ==
    /\ connected
    /\ Len(request) < NumReq
    /\ request' = Append(request, [method |-> "completion/complete", ref |-> c.ref,
                                   argument |-> c.argument])
    /\ Reply(Len(request) + 1, CompleteAnswer(c))
    /\ UNCHANGED <<loggingLevel, connected, exec, timer>>
    /\ UNCHANGED exceptSession

NextComplete == \E c \in CompleteRequests : Complete(c)

SpecComplete == Init /\ [][NextComplete]_vars

IsComplete(r) == r \in Received /\ request[r].method = "completion/complete"

\* The prompt argument a completion request names declares a completer or an enum.
DeclaresCompletion(r) ==
    /\ request[r].ref.type = "ref/prompt"
    /\ FindPrompt(request[r].ref.name) # 0
    /\ LET prompt == prompts[FindPrompt(request[r].ref.name)]
       IN  request[r].argument.name \in Completers(prompt) \cup Enums(prompt)

\* C22: a completion request is answered with a completion only when the prompt
\* declares a completer or an enum for the argument; otherwise (no such declaration,
\* unknown prompt, unknown reference kind) it is answered with the state error.
C22_CompletionSupport ==
    \A r \in Received :
        IsComplete(r) /\ handler[r] = "done" =>
            LET answer == sent[r][Len(sent[r])].payload
            IN  IF DeclaresCompletion(r)
                THEN answer.kind = "result"
                ELSE answer.kind = "error" /\ answer.code = "InternalError"

(***************************************************************************)
(* The race of execute() against the deadline (SpecTool)                   *)
(***************************************************************************)

\* A call of a tool that declares a timeout, which the handler went on to execute.
Raced(r) == Executed(r) /\ ToolOf(r).timeoutMs # 0

Settled(r) == exec[r].st \in {"returned", "threw"}

\* The response the race of request r comes to.
RaceResult(r) ==
    IF Settled(r) /\ ~exec[r].afterDeadline
    THEN HandlerResult(exec[r].outcome)
    ELSE Result(<< Text(TimedOutText(r)) >>, TRUE)

\* C23: for a call of a tool with a timeout, the firing of the deadline leaves the
\* tool's execute() as it is (it may still run and settle afterwards); the handler
\* answers as soon as either has happened, with the timeout error when the deadline
\* came first and with the outcome of execute() when that came first; the response,
\* once written, is the only one: what happens later adds nothing.
C23_TimeoutRace ==
    /\ [][\A r \in ReqIds : (timer[r] = "armed" /\ timer'[r] = "fired") => exec'[r] = exec[r]]_vars
    /\ [](\A r \in Received :
            Raced(r) =>
                /\ Done(r) <=> (Settled(r) \/ timer[r] = "fired")
                /\ Len(ResponsesOf(r)) <= 1
                /\ Done(r) => ResponsesOf(r) = << Response(r, RaceResult(r)) >>)
    /\ [][\A r \in ReqIds : (Done(r) /\ r \in Received) => ResponsesOf(r)' = ResponsesOf(r)]_vars

\* Two calls of the tool with a timeout: the deadline of the first fired while the
\* tool ran, and the tool went on and returned; the tool of the second returned first
\* and its deadline fired afterwards.  Each got one response.
C23_Witness ==
    /\ Len(request) = 2 /\ Raced(1) /\ Raced(2)
    /\ timer[1] = "fired" /\ exec[1].st = "returned" /\ exec[1].afterDeadline
    /\ exec[1].pc = Len(Body(request[1].name))
    /\ ResponsesOf(1) = << Response(1, Result(<< Text(TimedOutText(1)) >>, TRUE)) >>
    /\ timer[2] = "fired" /\ exec[2].st = "returned" /\ ~exec[2].afterDeadline
    /\ ResponsesOf(2) = << Response(2, Result(<< Text("1502") >>, FALSE)) >>

(***************************************************************************)
(* Tool handlers on a session whose transport closes (SpecTeardown)        *)
(***************************************************************************)
\* Valid calls of the tools that write.
WritingCalls == { c \in Calls : c.name \in {"noisy", "slow"} /\ c.arguments = "valid" }

NextTeardown ==
    \/ \E call \in WritingCalls : CallTool(call)
    \/ \E r \in ReqIds : ValidateArguments(r)
    \/ \E r \in ReqIds : ToolStep(r)
    \/ \E r \in ReqIds : \E outcome \in SettleOutcomes(r) : ToolSettle(r, outcome)
    \/ \E r \in ReqIds : TimerFire(r)
    \/ Close

SpecTeardown == Init /\ [][NextTeardown]_vars

\* C24: whatever a tool handler writes after the session's transport has closed (a
\* log notification, a progress notification, the response) is dropped or logged: no
\* promise is left rejected without a handler.
C24_WritesAfterClose == unhandled = << >>

(***************************************************************************)
(* Concurrent dispatch on one session (SpecTool)                           *)
(***************************************************************************)

\* What request r is to be answered with, from the request and its own execution.
ExpectedPayload(r) ==
    IF request[r].method = "logging/setLevel" THEN EmptyResult
    ELSE IF ~Registered(r) THEN UnknownTool(request[r].name)
    ELSE IF ViolatesSchema(r)
         THEN InvalidParameters(request[r].name, Validate(request[r].arguments))
    ELSE IF ToolOf(r).timeoutMs # 0 THEN RaceResult(r)
    ELSE HandlerResult(exec[r].outcome)

\* C25: the handlers of a session's requests run concurrently, so the order of the
\* responses is not bound to the order of the requests; every response is written for
\* one request, carries that request's id and is the answer to that request, and no
\* request is answered twice.
C25_ConcurrentDispatch ==
    /\ \A r \in Received :
          \A k \in 1..Len(sent[r]) :
              IsResponse(sent[r][k]) =>
                  /\ sent[r][k].id = r
                  /\ sent[r][k].payload = ExpectedPayload(r)
    /\ \A i, j \in 1..Len(responses) : responses[i] = responses[j] => i = j
    /\ \A i \in 1..Len(responses) : responses[i] \in Received /\ Done(responses[i])

\* The second request, a call of "add", was answered while the first, a call of
\* "noisy", was still executing; the first was answered afterwards.
C25_Witness ==
    /\ Len(request) = 2
    /\ IsCall(1) /\ request[1].name = "noisy" /\ request[1].arguments = "valid"
    /\ ValidAdd(2) /\ AnsweredThree(2)
    /\ responses = << 2, 1 >>
    /\ ResponsesOf(1) = << Response(1, Result(<< Text("done") >>, FALSE)) >>

(***************************************************************************)
(* Several sessions of one facade (SpecPeers)                              *)
(***************************************************************************)
SpecPeers == Init /\ [][NextPeers]_vars

\* The fields the claim is about, as session s has them.
Owned(s) ==
    [loggingLevel |-> Peer(s).loggingLevel, roots |-> Peer(s).roots,
     clientCapabilities |-> Peer(s).clientCapabilities, pingInterval |-> Peer(s).pingInterval]

\* C26: an operation on one session (its construction, handshake, set-level request,
\* roots change, tool call or close) leaves the logging level, the roots, the client
\* capabilities and the ping interval of every other session as they were.
C26_NoSharedState ==
    [][\A b \in PeerIds : b # peers'.last => Owned(b)' = Owned(b)]_vars

\* Session 1 went through handshake, a set-level request, a roots change and close
\* while session 2, connected before, still has the level, roots and interval it had.
C26_Witness ==
    /\ peers.last = 1
    /\ peers.fields[1].closed /\ peers.fields[1].loggingLevel = "debug"
    /\ peers.fields[1].roots = << "Frontend Repository" >>
    /\ peers.fields[1].pingInterval = "cleared"
    /\ peers.fields[2].constructed /\ ~peers.fields[2].closed
    /\ peers.fields[2].clientCapabilities.known
    /\ peers.fields[2].loggingLevel = "info" /\ peers.fields[2].roots = << >>
    /\ peers.fields[2].pingInterval = "running"

(***************************************************************************)
(* The registry as a session sees it (SpecRegistry)                        *)
(***************************************************************************)
SpecRegistry == Init /\ [][NextRegistry]_vars

\* C27: what a session lists for each kind is what was registered when it was
\* constructed, whatever is registered on the facade afterwards, and the names it
\* lists are the names a call, read or get resolves.
C27_RegistrySnapshot ==
    built.constructed =>
        \A kind \in Kinds :
            /\ Listed(kind) = built.registered[kind]
            /\ Range(Listed(kind)) = Resolvable(kind)

(***************************************************************************)
(* The normalization of a tool's return value (SpecTool)                   *)
(***************************************************************************)

\* The tool of request r returned a value before any deadline fired and the handler
\* has answered.
ReturnedInTime(r) == Executed(r) /\ Done(r) /\ exec[r].st = "returned" /\ ~exec[r].afterDeadline

ListItem(c) == [type |-> c.type, body |-> c.body]

\* The canonical response for a value of one of the three shapes.
Canonical(value) ==
    CASE value.js = "string"  -> Result(<< Text(value.text) >>, FALSE)
      [] value.js = "content" -> Result(<< ListItem(value) >>, FALSE)
      [] value.js = "result"  ->
            Result([i \in 1..Len(value.content) |-> ListItem(value.content[i])], value.isError)

\* A result flagged isError that carries one text item.
ErrorFlagged(payload) ==
    /\ payload.kind = "result" /\ payload.isError
    /\ Len(payload.content) = 1 /\ payload.content[1].type = "text"

\* C28: a string a tool returns is answered as one text item; a single text, image or
\* audio item as a list of that one item; a content-list object as the list it holds,
\* with its isError flag; a value of no such shape as a result flagged isError, never
\* as a protocol error.
C28_Normalization ==
    \A r \in Received :
        ReturnedInTime(r) =>
            /\ Len(ResponsesOf(r)) = 1
            /\ LET payload == ResponsesOf(r)[1].payload
                   value == exec[r].outcome.value
               IN  IF Fits(value) THEN payload = Canonical(value) ELSE ErrorFlagged(payload)

\* One tool returned an image item and was answered with the one-item list, another
\* returned an object of no known shape and was answered with a flagged result.
C28_Witness ==
    /\ Len(request) = 2 /\ ReturnedInTime(1) /\ ReturnedInTime(2)
    /\ exec[1].outcome.value = Content("image", "png")
    /\ ResponsesOf(1) = << Response(1, Result(<< [type |-> "image", body |-> "png"] >>, FALSE)) >>
    /\ exec[2].outcome.value = OtherObject
    /\ ErrorFlagged(ResponsesOf(2)[1].payload)

(***************************************************************************)
(* The listeners' other routes (SpecListener)                              *)
(***************************************************************************)
NextListener ==
    \/ NextFacade
    \/ \E req \in PlainRequests : Serve(req)

SpecListener == Init /\ [][NextListener]_vars

Ping == HttpRequest("GET", "/ping", 0)

ListenerUp == transportType \in {"sse", "httpStream"} /\ ~stopped

\* C29: a running HTTP listener answers GET /ping at any time, with or without
\* sessions, with 200 "pong"; answering it calls no createServer (so no authenticator),
\* creates no session and leaves the table of active transports, the session list and
\* the events as they are.
C29_Ping ==
    /\ [](ListenerUp => ENABLED Serve(Ping))
    /\ [](\A k \in 1..Len(replies) :
             replies[k].request = Ping => replies[k].status = 200 /\ replies[k].body = "pong")
    /\ [][(replies' # replies /\ replies'[1].request = Ping) =>
             UNCHANGED <<conn, activeTransports, sessions, events>>]_vars

\* GET /ping was answered while a session was open.
C29_Witness ==
    /\ replies = << HttpReply(Ping, 200, "pong", FALSE) >>
    /\ sessions # << >> /\ activeTransports # {}
    /\ \E c \in ConnIds : conn[c].stage = "creating"

\* The SSE listener, its connections and the POSTs to /messages.
NextMessages ==
    \/ Start("sse")
    \/ \E c \in ConnIds : Open(c)
    \/ \E c \in ConnIds : \E outcome \in CreateServerOutcomes : SseCreateServer(c, outcome)
    \/ \E c \in ConnIds : SseConnect(c)
    \/ \E c \in ConnIds : SsePeerClose(c)
    \/ \E c \in ConnIds : SseClosed(c)
    \/ Stop
    \/ \E req \in PostRequests : Serve(req)

SpecMessages == Init /\ [][NextMessages]_vars

\* The connection a table entry or a delivered POST belongs to is open, or its close
\* handler is on its way to removing the entry.
StillOpen(k) == k.res = "open" \/ k.closing = "awaiting"

\* C30: the SSE listener hands a POST to /messages to a transport only when the
\* sessionId names a connection that is open; a POST without sessionId, or with one
\* never issued or of a closed connection, is answered 400 and handed to no
\* transport; the table holds a connection's transport from the creation of its
\* session until the connection closes.
C30_PostRouting ==
    transportType = "sse" =>
        /\ \A k \in 1..Len(replies) :
              replies[k].request.method = "POST" =>
                  IF replies[k].delivered
                  THEN replies[k].request.sessionId \in ConnIds /\ StillOpen(replies[k].connection)
                  ELSE replies[k].status = 400
        /\ \A c \in ConnIds :
              c \in activeTransports <=> (conn[c].session # 0 /\ StillOpen(conn[c]))

(***************************************************************************)
(* The HTTP-stream listener: POST and DELETE on the endpoint               *)
(***************************************************************************)

\* The bodies a POST carries: an initialize request, another JSON-RPC request, text
\* that is no JSON (the empty body included).
InitializeBody == [json |-> TRUE, method |-> "initialize"]
OtherBody == [json |-> TRUE, method |-> "tools/list"]
MalformedBody == [json |-> FALSE, method |-> ""]
Bodies == {InitializeBody, OtherBody, MalformedBody}

\* getBody(req): the "end" listener resolves the promise with JSON.parse(body); when
\* JSON.parse throws, the exception leaves the listener of the event and the promise
\* stays pending.
GetBody(body) == IF body.json THEN Returns(body) ELSE Throws(Err("SyntaxError", "Unexpected end of JSON input"))

IsInitializeRequest(body) == body.method = "initialize"

\* An exception or a rejection that leaves the request listener.
Escaped(error) == [request |-> 0, error |-> error]

\* What the request listener of the HTTP-stream endpoint leaves in the response.
StreamReply(req, status, body, delivered) ==
    [request |-> req, status |-> status, body |-> body, delivered |-> delivered]

\* The request listener ended without writing to the response.
NoReply(req) == StreamReply(req, 0, "", FALSE)

\* JSON.stringify of the JSON-RPC error the listener answers with.
JsonRpcError(code, message) ==
    "{\"error\":{\"code\":" \o code \o ",\"message\":\"" \o message \o "\"},\"id\":null,\"jsonrpc\":\"2.0\"}"

StreamRequests == { HttpRequest(method, "/stream", id) : method \in {"POST", "DELETE"}, id \in PresentedIds }

\* The branch the POST listener takes.
PostBranch(req, body) ==
    CASE GetBody(body).threw -> "uncaught"
      [] req.sessionId # 0 /\ req.sessionId \in activeTransports -> "route"
      [] req.sessionId = 0 /\ IsInitializeRequest(body) -> "create"
      [] OTHER -> "bad request"

\* POST on the endpoint.  The body is read first; then the request goes to the
\* transport of its session, or opens a session (the listener goes on to await
\* createServer), or is refused.
HttpPost(req, body) ==
    /\ transportType = "httpStream"
    /\ ~stopped
    /\ req.method = "POST"
    /\ LET branch == PostBranch(req, body)
       IN  CASE branch = "uncaught" ->
                  /\ Len(unhandled) < MaxRaised
                  /\ unhandled' = Append(unhandled, Escaped(GetBody(body).error))
                  /\ replies' = << NoReply(req) >>
                  /\ UNCHANGED conn
             [] branch = "route" ->
                  /\ replies' = << StreamReply(req, 200, "transport.handleRequest", TRUE) >>
                  /\ UNCHANGED <<conn, unhandled>>
             [] branch = "create" ->
                  /\ \E d \in ConnIds : conn[d].stage = "idle"
                  /\ conn' = [conn EXCEPT ![NextConn] = [@ EXCEPT !.stage = "creating", !.res = "open"]]
                  /\ replies' = << NoReply(req) >>
                  /\ UNCHANGED unhandled
             [] OTHER ->
                  /\ replies' = << StreamReply(req, 400, JsonRpcError("-32000", "Bad Request: No valid session ID provided"), FALSE) >>
                  /\ UNCHANGED <<conn, unhandled>>
    /\ UNCHANGED <<transportType, stopped, activeTransports, sessions, events>>
    /\ UNCHANGED <<rootsFetches, rootsEvents, peers, registry, built>>
    /\ UNCHANGED <<sessionVars, readVars, lifeVars>>

\* The branch the DELETE listener takes: `const { server, transport } =
\* activeTransports[sessionId]` throws a TypeError when the table has no such entry,
\* before the test of `transport` (which answers 400 "No active transport" and is
\* never reached with a missing entry) and outside the try block.
DeleteBranch(req) ==
    CASE req.sessionId = 0 -> "missing"
      [] req.sessionId \notin activeTransports -> "uncaught"
      [] OTHER -> "delete"

\* DELETE on the endpoint.
HttpDeleteRequest(req) ==
    /\ transportType = "httpStream"
    /\ ~stopped
    /\ req.method = "DELETE"
    /\ LET branch == DeleteBranch(req)
       IN  CASE branch = "delete" -> HttpDelete(req.sessionId)
             [] branch = "missing" ->
                  /\ replies' = << StreamReply(req, 400, "Invalid or missing sessionId", FALSE) >>
                  /\ UNCHANGED <<facadeVars, unhandled>>
                  /\ UNCHANGED <<rootsFetches, rootsEvents, peers, registry, built>>
                  /\ UNCHANGED <<sessionVars, readVars, lifeVars>>
             [] OTHER ->
                  /\ Len(unhandled) < MaxRaised
                  /\ unhandled' = Append(unhandled, Escaped(Err("TypeError", "Cannot destructure property 'server'")))
                  /\ replies' = << NoReply(req) >>
                  /\ UNCHANGED facadeVars
                  /\ UNCHANGED <<rootsFetches, rootsEvents, peers, registry, built>>
                  /\ UNCHANGED <<sessionVars, readVars, lifeVars>>

\* The POSTs of the HTTP-stream endpoint and what they open.
NextStream ==
    \/ Start("httpStream")
    \/ \E req \in StreamRequests : \E body \in Bodies : HttpPost(req, body)
    \/ \E c \in ConnIds : \E outcome \in CreateServerOutcomes : HttpCreateServer(c, outcome)
    \/ \E c \in ConnIds : HttpClosed(c)
    \/ Stop

SpecStream == Init /\ [][NextStream]_vars

\* The DELETEs of the HTTP-stream endpoint, on the sessions initialize requests open.
NextStreamDelete ==
    \/ Start("httpStream")
    \/ \E c \in ConnIds : Open(c)
    \/ \E c \in ConnIds : HttpCreateServer(c, Created)
    \/ \E req \in StreamRequests : HttpDeleteRequest(req)
    \/ \E c \in ConnIds : HttpClosed(c)
    \/ \E c \in ConnIds : HttpDeleted(c)

SpecStreamDelete == Init /\ [][NextStreamDelete]_vars

IsPost(reply) == reply.request.method = "POST"
IsDelete(reply) == reply.request.method = "DELETE"
Raises == Len(unhandled') > Len(unhandled)
Opens == \E c \in ConnIds : conn[c].stage = "idle" /\ conn'[c].stage = "creating"

\* C31: a POST on the HTTP-stream endpoint opens a session only when it carries no
\* session id and its body is an initialize request; with the id of a session in the
\* table it goes to that session's transport; every other POST is answered 400 with
\* JSON-RPC error -32000, opens no session and emits no "connect".
C31_PostAdmission ==
    [][\A req \in StreamRequests : \A body \in Bodies :
          HttpPost(req, body) =>
             LET reply == replies'[1]
             IN  /\ Opens => req.sessionId = 0 /\ IsInitializeRequest(body)
                 /\ req.sessionId \in activeTransports => reply.delivered
                 /\ ~(req.sessionId \in activeTransports) /\ ~(req.sessionId = 0 /\ IsInitializeRequest(body)) =>
                       /\ reply.status = 400
                       /\ reply.body = JsonRpcError("-32000", "Bad Request: No valid session ID provided")
                       /\ ~Opens
                       /\ events' = events]_vars

\* C32: a DELETE on the HTTP-stream endpoint whose session id names no session of the
\* table is answered 400 "No active transport", raises nothing and leaves the table
\* as it was.
C32_DeleteUnknown ==
    [][\A req \in StreamRequests :
          HttpDeleteRequest(req) /\ req.sessionId # 0 /\ req.sessionId \notin activeTransports =>
             /\ replies'[1].status = 400
             /\ replies'[1].body = "No active transport"
             /\ ~Raises
             /\ activeTransports' = activeTransports]_vars

(***************************************************************************)
(* The order of "connect" and "disconnect" on the facade (SpecFacade)      *)
(***************************************************************************)
Emitted(i, type, s) == i \in 1..Len(events) /\ events[i] = Event(type, s)

\* C33: "disconnect" is emitted for a session only after "connect" was emitted for
\* it, and no "connect" is emitted for a session after its "disconnect", also when
\* the client goes away while the session is still being connected.
C33_ConnectThenDisconnect ==
    \A i \in 1..Len(events) : \A s \in ConnIds :
        /\ Emitted(i, "disconnect", s) => \E j \in 1..(i - 1) : Emitted(j, "connect", s)
        /\ Emitted(i, "connect", s) => ~ \E j \in 1..(i - 1) : Emitted(j, "disconnect", s)

(***************************************************************************)
(* InMemoryEventStore.replayEventsAfter (SpecEventStore)                   *)
(***************************************************************************)
NextEventStore ==
    \/ Tick
    \/ \E streamId \in StreamIds : \E random \in RandomSuffixes : StoreEvent(streamId, random)
    \/ \E lastEventId \in LastEventIds : Replay(lastEventId)

SpecEventStore == Init /\ [][NextEventStore]_vars

\* The position at which an event id was stored.
StoredAt(eventId) == CHOOSE i \in 1..Len(eventStore.order) : eventStore.order[i] = eventId

\* The events of lastEventId's stream stored after it, in the order stored.
StoredAfter(lastEventId) ==
    LET streamId == EntryOf(lastEventId).streamId
        Later(eventId) == /\ StoredAt(eventId) > StoredAt(lastEventId)
                          /\ EntryOf(eventId).streamId = streamId
        ids == SelectSeq(eventStore.order, Later)
    IN  [i \in 1..Len(ids) |-> [eventId |-> ids[i], message |-> EntryOf(ids[i]).message]]

\* C34: replayEventsAfter(lastEventId) sends exactly the events of lastEventId's
\* stream that were stored after it, in the order stored, none of another stream, and
\* returns the stream's id; for an empty or unknown lastEventId it sends nothing and
\* returns "".
C34_Replay ==
    [][\A lastEventId \in LastEventIds :
          Replay(lastEventId) =>
             LET replay == eventStore'.replay
             IN  IF lastEventId \in EventIds
                 THEN /\ replay.sent = StoredAfter(lastEventId)
                      /\ replay.returned = EntryOf(lastEventId).streamId
                 ELSE /\ replay.sent = << >>
                      /\ replay.returned = ""]_vars

(***************************************************************************)
(* StdioClientTransport: reading (SpecStdioRead) and closing (SpecStdio)   *)
(***************************************************************************)

\* A transport whose only child runs: what it writes and how it is read.
NextStdioRead ==
    \/ stdio.children = << >> /\ StdioStart(TRUE)
    \/ \E k \in ChildIds : Spawned(k)
    \/ \E k \in ChildIds : \E frame \in Frames : ChildWrite(k, frame)
    \/ \E k \in ChildIds : \E n \in 1..(4 * MaxFrames) : StdoutData(k, n)
    \/ \E k \in ChildIds : ChildExit(k)
    \/ \E k \in ChildIds : ChildClose(k)

SpecStdioRead == Init /\ [][NextStdioRead]_vars

NextStdio ==
    \/ \E spawned \in BOOLEAN : StdioStart(spawned)
    \/ \E k \in ChildIds : Spawned(k)
    \/ \E k \in ChildIds : SpawnFailed(k)
    \/ \E k \in ChildIds : AbortTick(k)
    \/ \E k \in ChildIds : ChildWrite(k, "[1")
    \/ \E k \in ChildIds : StdoutData(k, 3)
    \/ \E k \in ChildIds : ChildExit(k)
    \/ \E k \in ChildIds : ChildClose(k)
    \/ StdioClose

SpecStdio == Init /\ [][NextStdio]_vars

\* The messages among the lines written, in the order written.
RECURSIVE MessagesOf(_)
MessagesOf(frames) ==
    IF frames = << >> THEN << >>
    ELSE IF Deserialize(Head(frames)).threw
         THEN MessagesOf(Tail(frames))
         ELSE << Deserialize(Head(frames)).value >> \o MessagesOf(Tail(frames))

RECURSIVE MalformedOf(_)
MalformedOf(frames) ==
    IF frames = << >> THEN << >>
    ELSE IF Deserialize(Head(frames)).threw
         THEN << Deserialize(Head(frames)).error >> \o MalformedOf(Tail(frames))
         ELSE MalformedOf(Tail(frames))

IsPrefix(s, t) == Len(s) <= Len(t) /\ s = SubSeq(t, 1, Len(s))

AllRead == \A k \in ChildIds : stdio.children[k].pipe = ""

\* C35: the messages framed in the input reach onmessage one at a time in the order
\* of arrival; a malformed frame is reported through onerror, the transport stays
\* open, and every well-formed message after it is delivered.
C35_InOrderDelivery ==
    /\ IsPrefix(stdio.delivered, MessagesOf(stdio.written))
    /\ IsPrefix(stdio.errors, MalformedOf(stdio.written))
    /\ AllRead => /\ stdio.delivered = MessagesOf(stdio.written)
                  /\ stdio.errors = MalformedOf(stdio.written)
                  /\ stdio.readBuffer = ""
    /\ \A k \in ChildIds : stdio.children[k].state = "running" => stdio.process = k /\ ~stdio.aborted

\* A malformed line was followed by a message, and both have been read.
C35_Witness ==
    /\ AllRead
    /\ Len(stdio.written) = 2
    /\ Deserialize(stdio.written[1]).threw
    /\ stdio.delivered = << "2" >>
    /\ Len(stdio.errors) = 1

\* One run closes a session or a stdio transport: the two objects share nothing.
SessionUntouched == connects = << >> /\ ~closed
TransportUntouched == stdio = NewTransport

NextClosing ==
    \/ TransportUntouched /\ \E type \in TransportKinds : Connect(Transport(1, type))
    \/ TransportUntouched /\ ClientInitialize(Capabilities(FALSE, FALSE))
    \/ TransportUntouched /\ PollCapabilities
    \/ TransportUntouched /\ DelayElapsed
    \/ TransportUntouched /\ SessionClose
    \/ SessionUntouched /\ \E spawned \in BOOLEAN : StdioStart(spawned)
    \/ SessionUntouched /\ \E k \in ChildIds : Spawned(k)
    \/ SessionUntouched /\ \E k \in ChildIds : SpawnFailed(k)
    \/ SessionUntouched /\ \E k \in ChildIds : AbortTick(k)
    \/ SessionUntouched /\ \E k \in ChildIds : ChildWrite(k, "[1")
    \/ SessionUntouched /\ \E k \in ChildIds : StdoutData(k, 3)
    \/ SessionUntouched /\ \E k \in ChildIds : ChildExit(k)
    \/ SessionUntouched /\ \E k \in ChildIds : ChildClose(k)
    \/ SessionUntouched /\ StdioClose

\* A session constructed with the default options, and a transport just constructed.
InitClosing == InitConnect /\ options = [ping |-> "undefined", roots |-> "undefined"]

SpecClosing == InitClosing /\ [][NextClosing]_vars

\* C36: close() never raises and is idempotent, on the stdio transport and on the
\* session, before start/connect, after it, and after the peer has closed: a call
\* that follows another changes nothing.
C36_CloseIdempotent ==
    [][/\ StdioClose =>
            /\ stdio'.raised = stdio.raised
            /\ [CloseTransport(stdio') EXCEPT !.closes = stdio'.closes] = stdio'
       /\ SessionClose =>
            /\ unhandled' = unhandled
            /\ CloseSession(SessionFields') = SessionFields']_vars

\* close() has been called twice on a transport whose child is running.
C36_Witness ==
    /\ stdio.closes = 2
    /\ \E k \in ChildIds : stdio.children[k].state = "running" /\ stdio.children[k].onclose = 1

\* C37: onclose is invoked at most once for a started transport's channel, whether
\* it ends by close() or by the child's exit.
C37_OncloseOnce == \A k \in ChildIds : stdio.children[k].onclose <= 1

(***************************************************************************)
(* The grading backend (SpecBackend)                                       *)
(***************************************************************************)
NextBackend ==
    \/ \E router \in Routers : \E body \in PostBodies(router) : BackendPost(router, body)
    \/ \E router \in Routers : \E param \in Params : BackendGet(router, param)
    \/ \E router \in Routers : \E param \in Params : \E body \in PutBodies(router) :
          BackendPut(router, param, body)
    \/ \E router \in Routers : \E param \in Params : BackendDelete(router, param)

SpecBackend == Init /\ [][NextBackend]_vars

\* C38: in every collection the stored records have pairwise distinct ids, each
\* record keeps the id it was created with, ids are assigned in strictly increasing
\* order and the id of a deleted record is not assigned again.
C38_Ids ==
    /\ \A i, j \in 1..Len(backend.records) :
          i # j => backend.records[i].id # backend.records[j].id
    /\ \A i \in 1..Len(backend.records) : backend.records[i].id = backend.origin[i]
    /\ \A i, j \in 1..Len(backend.assigned) : i < j => backend.assigned[i] < backend.assigned[j]

\* The same of the collections of mapel and siswa alone, whose PUT assigns `nama`.
IdsOfMapelAndSiswa == backend.router \in {"mapel", "siswa"} => C38_Ids

Stored(records, param) == FindIndex(records, param) # 0

\* C39: GET, PUT and DELETE of an id that is not stored answer 404 and leave the
\* collection and the id counter as they are; DELETE of a stored id answers 204,
\* removes that record and no other, and the id is not stored afterwards (a GET of it
\* answers 404).
C39_NotFoundAndDelete ==
    [][\A router \in Routers : \A param \in Params :
          /\ (\/ BackendGet(router, param)
              \/ BackendDelete(router, param)
              \/ \E body \in PutBodies(router) : BackendPut(router, param, body))
             /\ ~Stored(backend.records, param)
             => /\ backend'.reply.status = 404
                /\ backend'.records = backend.records
                /\ backend'.idCounter = backend.idCounter
          /\ BackendDelete(router, param) /\ Stored(backend.records, param)
             => /\ backend'.reply.status = 204
                /\ backend'.records = Splice(backend.records, FindIndex(backend.records, param))
                /\ ~Stored(backend'.records, param)]_vars

(***************************************************************************)
(* Overlapping roots fetches (SpecRoots)                                   *)
(***************************************************************************)
AllSettled == \A i \in 1..Len(rootsFetches) : rootsFetches[i].fetch => rootsFetches[i].settled

\* The fetch started last.
LatestFetch == rootsFetches[Len(rootsFetches)]

\* C40: when several roots-changed notifications arrive while earlier fetches are
\* still in flight, then with all fetches settled the session's roots are the result
\* of the fetch started last, and the last "rootsChanged" event carries that list.
C40_LatestFetchWins ==
    /\ Len(rootsFetches) >= 2
    /\ AllSettled
    /\ LatestFetch.fetch
    /\ ~LatestFetch.outcome.threw
    => /\ roots = LatestFetch.outcome.value
       /\ rootsEvents # << >>
       /\ rootsEvents[Len(rootsEvents)] = LatestFetch.outcome.value

====
